---- MODULE Spec2Model ----
(***************************************************************************)
(* A model of the CloudTik cluster control plane:                          *)
(*   - ClusterMetrics (core/_private/cluster/cluster_metrics.py): the      *)
(*     standing resource requests, the resource demands and the per-IP     *)
(*     maps;                                                               *)
(*   - NodeUpdater (core/_private/node/node_updater.py): run / do_update.  *)
(* Each subsystem has its own specification; the variables of the other    *)
(* subsystem stay at their constructed values.                             *)
(***************************************************************************)
EXTENDS Integers, Sequences, FiniteSets, TLC

VARIABLES
    \* ---- ClusterMetrics: requests and demands
    last_demanding_time,
    resource_demands,
    last_requesting_time,
    resource_requests,
    \* ---- ClusterMetrics: per-IP maps (functions whose DOMAIN is the key set)
    node_id_by_ip,
    last_heartbeat_time_by_ip,
    last_used_time_by_ip,
    last_resource_time_by_ip,
    static_resources_by_ip,
    dynamic_resources_by_ip,
    resource_load_by_ip,
    \* the IPs the last prune_active_ips call logged as removed (logger.info)
    removed_log,
    \* whether every update_node_resources call so far came with a timestamp no
    \* older than the one stored for its IP
    timestamps_in_order,
    \* the last call made on the ClusterMetrics object: arguments and return value
    call,
    \* ---- NodeUpdater: the provider's side of the node
    provider_tags,      \* the node's tags as the provider holds them
    tag_writes,         \* the set_node_tags calls of this run, in order
    terminated,         \* provider.is_terminated(node_id)
    terminated_elapsed, \* seconds the provider has reported the node terminated
    executed,           \* what the command executor ran on the node, in order
    \* ---- NodeUpdater: the call context
    allow_interactive,
    output_redirected,
    \* ---- NodeUpdater: fields and locals
    pc,                 \* where run() is
    restart_only,
    initialization_commands,
    setup_commands,
    start_commands,
    file_mounts_contents_hash,
    node_tags,          \* do_update's copy of the node's tags
    init_required,      \* what run_init(sync_run_yet=False) returned
    cmd_index,          \* the next command of the list being run
    wait_elapsed,       \* seconds wait_ready has slept since its deadline was set
    failed,             \* the command that failed on the node, and its exit code
    exc,                \* the exception that left do_update
    reported,           \* what run's except clause printed of it
    exitcode,
    attempts,           \* the failed attempts of the command being run
    command_env,        \* environment_variables of the last list command run
    \* ---- NodeUpdater: constructor arguments that run() never changes
    restart_only_arg,   \* restart_only as it was passed to __init__
    updater_config,     \* the options of the cluster config
    updater_provider_type,
    node_resources,
    \* ---- the config cache
    cache_files,        \* the files of the config cache directory, by cache key
    provider_log_state, \* the log state the provider module holds in this process
    \* ---- several NodeUpdaters, one per node
    cluster_tags,       \* the provider's tags of every node
    cluster_tag_writes, \* the set_node_tags calls that reached each node
    fleet,              \* per Updater: where its run() is and what it read
    \* ---- a second _bootstrap_config call, running beside the first
    cache_writer,       \* <<>>, or the cache key it opened and the text to write
    \* ---- ResourceDemandScheduler and the ClusterController tick
    node_type_catalog,  \* available_node_types, max_workers, idle_timeout_minutes
    clock,              \* the controller's clock, in minutes
    cluster_nodes,      \* the workers the provider reports, by node id
    scaling,            \* what the last tick was given and what it decided
    \* ---- HAProxy: the server slots of one backend
    backend_slots,      \* by server name: the slot's address and whether it is enabled
    free_slots,         \* HAPROXY_BACKEND_DYNAMIC_FREE_SLOTS
    backend_update      \* the last _update_backend call: its servers, the slots before, its API calls

metricsVars == <<last_demanding_time, resource_demands, last_requesting_time,
                 resource_requests, node_id_by_ip, last_heartbeat_time_by_ip,
                 last_used_time_by_ip, last_resource_time_by_ip,
                 static_resources_by_ip, dynamic_resources_by_ip,
                 resource_load_by_ip, removed_log, timestamps_in_order,
                 call>>

requestVars == <<last_demanding_time, resource_demands, last_requesting_time,
                 resource_requests>>

ipVars == <<node_id_by_ip, last_heartbeat_time_by_ip, last_used_time_by_ip,
            last_resource_time_by_ip, static_resources_by_ip,
            dynamic_resources_by_ip, resource_load_by_ip, removed_log,
            timestamps_in_order>>

updaterVars == <<provider_tags, tag_writes, terminated, terminated_elapsed,
                 executed, allow_interactive, output_redirected, pc, restart_only,
                 initialization_commands, setup_commands, start_commands,
                 file_mounts_contents_hash, node_tags, init_required,
                 cmd_index, wait_elapsed, failed, exc, reported, exitcode,
                 attempts, command_env, restart_only_arg, updater_config,
                 updater_provider_type, node_resources>>

\* the constructor arguments run() only reads
argVars == <<restart_only_arg, updater_config, updater_provider_type,
             node_resources>>

\* the state of the command being run
commandVars == <<attempts, command_env>>

configVars == <<cache_files, provider_log_state>>

\* the Updaters of several nodes at work at once
fleetVars == <<cluster_tags, cluster_tag_writes, fleet>>

\* the _bootstrap_config call of another thread or process
writerVars == <<cache_writer>>

\* the head node's scaling loop
schedulerVars == <<node_type_catalog, clock, cluster_nodes, scaling>>

\* what the other subsystems leave alone
haproxyVars == <<backend_slots, free_slots, backend_update>>

restVars == <<fleetVars, writerVars, schedulerVars, haproxyVars>>

vars == <<metricsVars, updaterVars, configVars, restVars>>

----------------------------------------------------------------------------
(* Bounds of the model *)

\* timestamps are drawn from 0..MaxTime
MaxTime == 2
\* a list of resource requests passed by a caller holds at most MaxBundles bundles
MaxBundles == 1
\* the controller's clock runs for MaxClock minutes
MaxClock == 2
\* the pending demands of a tick hold at most MaxDemands bundles
MaxDemands == 1
\* each command list of an Updater holds at most MaxCommands commands
MaxCommands == 1
\* the seconds wait_ready waits for the node (CLOUDTIK_NODE_START_WAIT_S)
MaxWait == 10
\* the server slots the configuration of a backend starts with
MaxSlots == 2
\* the servers one _update_backend call is given
MaxServers == 2

----------------------------------------------------------------------------
(* Values *)

Times == 0..MaxTime

\* resource ids, and the amounts a bundle gives them: the code only tells a
\* zero amount from a non-zero one
Resources == {"CPU", "GPU"}
Amounts == {0, 1}

\* a ResourceDict: a mapping from some resource ids to amounts
Bundles == UNION {[S -> Amounts] : S \in SUBSET Resources}

EmptyMap == [x \in {} |-> 0]

\* an optional list: Python's None, or a list
NoList == [some |-> FALSE, val |-> <<>>]
SomeList(l) == [some |-> TRUE, val |-> l]

ListsOf(S, n) == UNION {[1..k -> S] : k \in 0..n}

RequestLists == ListsOf(Bundles, MaxBundles)
\* demands are only tested for emptiness and stored as given
DemandLists == {<<>>, <<[r \in {"CPU"} |-> 1]>>}

OptRequestLists == {NoList} \cup {SomeList(l) : l \in RequestLists}
OptDemandLists == {NoList} \cup {SomeList(l) : l \in DemandLists}

\* the bundles of a list, as a set
Range(s) == {s[i] : i \in 1..Len(s)}

\* how many times bundle b occurs in list s
Count(b, s) == Cardinality({i \in 1..Len(s) : s[i] = b})

----------------------------------------------------------------------------
(* ClusterMetrics: resource requests *)

_get_resource_ids_from_request(resource_requests_) ==
    UNION {DOMAIN resource_requests_[i] : i \in 1..Len(resource_requests_)}

\* mutant: a request is relevant only when all its resource ids are
_is_resource_request_relevant_all(resource_request, relevant_resource_ids) ==
    \A resource_id \in DOMAIN resource_request :
        resource_id \in relevant_resource_ids

_is_resource_request_relevant(resource_request, relevant_resource_ids) ==
    \E resource_id \in DOMAIN resource_request :
        resource_id \in relevant_resource_ids

\* mutant: only the empty request is filtered out
_is_resource_request_kept_nonempty(resource_request) ==
    DOMAIN resource_request # {}

_is_resource_request_kept(resource_request) ==
    IF DOMAIN resource_request = {} THEN FALSE
    ELSE IF Cardinality(DOMAIN resource_request) = 1
            /\ (\A r \in DOMAIN resource_request : resource_request[r] = 0)
         THEN FALSE
         ELSE TRUE

\* the new requests kept, then (unless override) the existing requests that
\* touch none of the resource ids of the new ones
MergedRequests(requested_resources, override) ==
    LET kept == SelectSeq(requested_resources, _is_resource_request_kept)
        relevant_resource_ids ==
            _get_resource_ids_from_request(requested_resources)
        existing == SelectSeq(resource_requests,
            LAMBDA request :
                ~_is_resource_request_relevant(request, relevant_resource_ids))
    IN  IF override THEN kept ELSE kept \o existing

\* mutant: a requesting time equal to the last one is accepted
IsStaleRequestStrict(requesting_time) == requesting_time < last_requesting_time

\* whether the requesting time is rejected
IsStaleRequest(requesting_time) == requesting_time <= last_requesting_time

\* set_resource_requests: the return value and the fields after the call
set_resource_requests(requesting_time, requested_resources, override) ==
    IF ~requested_resources.some
    THEN [ret |-> FALSE, last_requesting_time |-> last_requesting_time,
          resource_requests |-> resource_requests]
    ELSE IF IsStaleRequest(requesting_time)
    THEN [ret |-> FALSE, last_requesting_time |-> last_requesting_time,
          resource_requests |-> resource_requests]
    ELSE [ret |-> TRUE, last_requesting_time |-> requesting_time,
          resource_requests |->
              MergedRequests(requested_resources.val, override)]

\* a call is made when the caller holds no pending return value
Idle == call.op = "none"

\* the request fields on entry to a call
RequestsBefore ==
    [last_requesting_time |-> last_requesting_time,
     resource_requests |-> resource_requests,
     last_demanding_time |-> last_demanding_time,
     resource_demands |-> resource_demands]

SetResourceRequests ==
    /\ Idle
    /\ \E t \in Times, requests \in OptRequestLists, override \in BOOLEAN :
        LET r == set_resource_requests(t, requests, override)
        IN  /\ last_requesting_time' = r.last_requesting_time
            /\ resource_requests' = r.resource_requests
            /\ call' = [op |-> "set_resource_requests", t |-> t,
                        requests |-> requests, override |-> override,
                        ret |-> r.ret, before |-> RequestsBefore]
            /\ UNCHANGED <<last_demanding_time, resource_demands, ipVars,
                           updaterVars, restVars, configVars>>

----------------------------------------------------------------------------
(* ClusterMetrics: autoscaling instructions *)

\* the instructions a scaling policy publishes; None when there are none
Instructions ==
    [some : {TRUE}, scaling_time : Times, resource_demands : OptDemandLists,
     resource_requests : OptRequestLists]
NoInstructions ==
    [some |-> FALSE, scaling_time |-> 0, resource_demands |-> NoList,
     resource_requests |-> NoList]

\* mutant: an instruction as old as the last one counts as new
_update_resource_demands_not_older(instr) ==
    IF instr.some
       /\ instr.scaling_time >= last_demanding_time
       /\ instr.resource_demands.some
       /\ instr.resource_demands.val # <<>>
    THEN [resource_demands |-> instr.resource_demands.val,
          last_demanding_time |-> instr.scaling_time]
    ELSE [resource_demands |-> <<>>,
          last_demanding_time |-> last_demanding_time]

\* _update_resource_demands: the fields after the call
_update_resource_demands(instr) ==
    IF instr.some
       /\ instr.scaling_time > last_demanding_time
       /\ instr.resource_demands.some
       /\ instr.resource_demands.val # <<>>
    THEN [resource_demands |-> instr.resource_demands.val,
          last_demanding_time |-> instr.scaling_time]
    ELSE [resource_demands |-> <<>>,
          last_demanding_time |-> last_demanding_time]

\* mutant: the requests are merged but the call answers False
_update_resource_requests_silent(instr) ==
    IF ~instr.some
    THEN [ret |-> FALSE, last_requesting_time |-> last_requesting_time,
          resource_requests |-> resource_requests]
    ELSE IF ~instr.resource_requests.some \/ instr.resource_requests.val = <<>>
    THEN [ret |-> FALSE, last_requesting_time |-> last_requesting_time,
          resource_requests |-> resource_requests]
    ELSE [set_resource_requests(instr.scaling_time, instr.resource_requests,
                                FALSE) EXCEPT !.ret = FALSE]

\* _update_resource_requests: the return value and the fields after the call
_update_resource_requests(instr) ==
    IF ~instr.some
    THEN [ret |-> FALSE, last_requesting_time |-> last_requesting_time,
          resource_requests |-> resource_requests]
    ELSE IF ~instr.resource_requests.some \/ instr.resource_requests.val = <<>>
    THEN [ret |-> FALSE, last_requesting_time |-> last_requesting_time,
          resource_requests |-> resource_requests]
    ELSE set_resource_requests(instr.scaling_time, instr.resource_requests,
                               FALSE)

UpdateAutoscalingInstructions ==
    /\ Idle
    /\ \E instr \in Instructions \cup {NoInstructions} :
        LET d == _update_resource_demands(instr)
            r == _update_resource_requests(instr)
        IN  /\ resource_demands' = d.resource_demands
            /\ last_demanding_time' = d.last_demanding_time
            /\ last_requesting_time' = r.last_requesting_time
            /\ resource_requests' = r.resource_requests
            /\ call' = [op |-> "update_autoscaling_instructions",
                        instr |-> instr, ret |-> r.ret,
                        before |-> RequestsBefore]
            /\ UNCHANGED <<ipVars, updaterVars, restVars, configVars>>

----------------------------------------------------------------------------
(* ClusterMetrics: per-IP maps *)

IPs == {"ip1", "ip2"}
NodeIds == {"n1"}

\* timestamps of resource reports: they are stored, never compared, so an
\* older and a newer value show every order of arrival
Stamps == {1, 2}
\* timestamps of heartbeats: stored, never read back by these operations
HeartbeatStamps == {1}

\* the resources of a node: the static ones give every resource its
\* capacity, the dynamic ones may lack a resource (none of it is available)
NodeResources == {"CPU"}
StaticBundles == [NodeResources -> Amounts]
NodeBundles == UNION {[S -> Amounts] : S \in SUBSET NodeResources}

\* resource_load: with or without the in_use flag
Loads == UNION {[S -> BOOLEAN] : S \in SUBSET {"in_use"}}

\* mapping[key] = value
Put(mapping, key, value) ==
    [k \in DOMAIN mapping \cup {key} |->
        IF k = key THEN value ELSE mapping[k]]

\* the maps on entry to a call
MapsBefore ==
    [node_id_by_ip |-> node_id_by_ip,
     last_heartbeat_time_by_ip |-> last_heartbeat_time_by_ip,
     last_used_time_by_ip |-> last_used_time_by_ip,
     last_resource_time_by_ip |-> last_resource_time_by_ip,
     static_resources_by_ip |-> static_resources_by_ip,
     dynamic_resources_by_ip |-> dynamic_resources_by_ip,
     resource_load_by_ip |-> resource_load_by_ip]

update_heartbeat(ip, node_id, last_heartbeat_time) ==
    /\ node_id_by_ip' = Put(node_id_by_ip, ip, node_id)
    /\ last_heartbeat_time_by_ip' =
           Put(last_heartbeat_time_by_ip, ip, last_heartbeat_time)
    /\ UNCHANGED <<last_used_time_by_ip, last_resource_time_by_ip,
                   static_resources_by_ip, dynamic_resources_by_ip,
                   resource_load_by_ip, removed_log, timestamps_in_order>>

UpdateHeartbeat ==
    /\ Idle
    /\ \E ip \in IPs, node_id \in NodeIds, t \in HeartbeatStamps :
        /\ update_heartbeat(ip, node_id, t)
        /\ call' = [op |-> "update_heartbeat", ip |-> ip]
    /\ UNCHANGED <<requestVars, updaterVars, restVars, configVars>>

\* mutant: the missing resources are not filled in
DynamicResourcesUpdateNoFill(static_resources, dynamic_resources) ==
    dynamic_resources

\* the dynamic resources stored: the ones given, and 0 for every static
\* resource they lack
DynamicResourcesUpdate(static_resources, dynamic_resources) ==
    [resource_name \in DOMAIN dynamic_resources \cup DOMAIN static_resources |->
        IF resource_name \in DOMAIN dynamic_resources
        THEN dynamic_resources[resource_name]
        ELSE 0]

\* mutant: the caller's dict is filled in place
CallerDynamicResourcesAliased(static_resources, dynamic_resources) ==
    DynamicResourcesUpdate(static_resources, dynamic_resources)

\* update_node_resources, line 184: the fill works on
\* dynamic_resources.copy(), so the caller's dict is after the call what it
\* was before
CallerDynamicResources(static_resources, dynamic_resources) ==
    dynamic_resources

\* mutant: the commented-out comparison is in force and no node is idle
_is_node_idle_never(ip) == FALSE

\* _is_node_idle, lines 201-206: the comparison of the static with the
\* dynamic resources is commented out
_is_node_idle(ip) == TRUE

\* mutant: an IP seen for the first time gets no last used time
IsLastUsedTimeUpdatedKnownOnly(ip, resource_load) ==
    \/ ("in_use" \in DOMAIN resource_load /\ resource_load["in_use"])
    \/ ~_is_node_idle(ip)

\* mutant: the in_use key counts, whatever its value
IsLastUsedTimeUpdatedInUseKey(ip, resource_load) ==
    \/ ip \notin DOMAIN last_used_time_by_ip
    \/ "in_use" \in DOMAIN resource_load
    \/ ~_is_node_idle(ip)

\* update_node_resources: whether the report sets the last used time
IsLastUsedTimeUpdated(ip, resource_load) ==
    \/ ip \notin DOMAIN last_used_time_by_ip
    \/ ("in_use" \in DOMAIN resource_load /\ resource_load["in_use"])
    \/ ~_is_node_idle(ip)

update_node_resources(ip, node_id, last_resource_time, static_resources, dynamic_resources, resource_load) ==
    /\ node_id_by_ip' = Put(node_id_by_ip, ip, node_id)
    /\ static_resources_by_ip' =
           Put(static_resources_by_ip, ip, static_resources)
    /\ resource_load_by_ip' = Put(resource_load_by_ip, ip, resource_load)
    /\ dynamic_resources_by_ip' =
           Put(dynamic_resources_by_ip, ip,
               DynamicResourcesUpdate(static_resources, dynamic_resources))
    /\ last_used_time_by_ip' =
           IF IsLastUsedTimeUpdated(ip, resource_load)
           THEN Put(last_used_time_by_ip, ip, last_resource_time)
           ELSE last_used_time_by_ip
    /\ last_resource_time_by_ip' =
           Put(last_resource_time_by_ip, ip, last_resource_time)
    /\ timestamps_in_order' =
           (/\ timestamps_in_order
            /\ ip \in DOMAIN last_resource_time_by_ip =>
                   last_resource_time >= last_resource_time_by_ip[ip])
    /\ UNCHANGED <<last_heartbeat_time_by_ip, removed_log>>

\* add_resources, lines 35-46
add_resources(dict1, dict2) ==
    [k \in DOMAIN dict1 \cup DOMAIN dict2 |->
        (IF k \in DOMAIN dict2 THEN dict2[k] ELSE 0)
            + (IF k \in DOMAIN dict1 THEN dict1[k] ELSE 0)]

RECURSIVE reduce_add_resources(_)
\* reduce(add_resources, by_ip.values()) if by_ip else {}
reduce_add_resources(by_ip) ==
    IF DOMAIN by_ip = {} THEN EmptyMap
    ELSE LET ip == CHOOSE i \in DOMAIN by_ip : TRUE
         IN  add_resources(
                 reduce_add_resources(
                     [j \in DOMAIN by_ip \ {ip} |-> by_ip[j]]),
                 by_ip[ip])

\* summary, lines 338-357: the usage of every resource of the totals, or the
\* KeyError of a resource that has no available amount (no node of the model
\* has the resource "memory", the one whose amounts are scaled)
summary_usage ==
    LET available_resources == reduce_add_resources(dynamic_resources_by_ip)
        total_resources == reduce_add_resources(static_resources_by_ip)
    IN  IF \E key \in DOMAIN total_resources :
               key \notin DOMAIN available_resources
        THEN [raised |-> "KeyError"]
        ELSE [usage |->
                 [key \in DOMAIN total_resources |->
                     <<total_resources[key] - available_resources[key],
                       total_resources[key]>>]]

UpdateNodeResources ==
    /\ Idle
    /\ \E ip \in IPs, node_id \in NodeIds, t \in Stamps,
          static_resources \in StaticBundles, dynamic_resources \in NodeBundles,
          resource_load \in Loads :
        /\ update_node_resources(ip, node_id, t, static_resources,
                                 dynamic_resources, resource_load)
        /\ call' = [op |-> "update_node_resources", ip |-> ip,
                    last_resource_time |-> t,
                    static_resources |-> static_resources,
                    dynamic_resources |-> dynamic_resources,
                    resource_load |-> resource_load,
                    caller_dynamic_resources |->
                        CallerDynamicResources(static_resources,
                                               dynamic_resources)]
    /\ UNCHANGED <<requestVars, updaterVars, restVars, configVars>>

\* mark_active: a missing (or zero) heartbeat time is replaced by the clock
mark_active(ip, last_heartbeat_time, now) ==
    /\ last_heartbeat_time_by_ip' =
           Put(last_heartbeat_time_by_ip, ip,
               IF last_heartbeat_time = 0 THEN now ELSE last_heartbeat_time)
    /\ UNCHANGED <<node_id_by_ip, last_used_time_by_ip,
                   last_resource_time_by_ip, static_resources_by_ip,
                   dynamic_resources_by_ip, resource_load_by_ip, removed_log,
                   timestamps_in_order>>

MarkActive ==
    /\ Idle
    /\ \E ip \in IPs, t \in HeartbeatStamps \cup {0}, now \in HeartbeatStamps :
        /\ mark_active(ip, t, now)
        /\ call' = [op |-> "mark_active", ip |-> ip]
    /\ UNCHANGED <<requestVars, updaterVars, restVars, configVars>>

\* mutant: the difference is taken the wrong way round
prune_reversed(mapping, active_ips) ==
    LET unwanted_ips == active_ips \ DOMAIN mapping
    IN  [ip \in DOMAIN mapping \ unwanted_ips |-> mapping[ip]]

\* the inner prune(mapping, should_log): the mapping without the unwanted ips
prune(mapping, active_ips) ==
    LET unwanted_ips == DOMAIN mapping \ active_ips
    IN  [ip \in DOMAIN mapping \ unwanted_ips |-> mapping[ip]]

\* mutant: the resource loads are left out of the pruning
prune_active_ips_but_load(active_ips) ==
    /\ last_used_time_by_ip' = prune(last_used_time_by_ip, active_ips)
    /\ removed_log' = DOMAIN last_used_time_by_ip \ active_ips
    /\ static_resources_by_ip' = prune(static_resources_by_ip, active_ips)
    /\ node_id_by_ip' = prune(node_id_by_ip, active_ips)
    /\ dynamic_resources_by_ip' = prune(dynamic_resources_by_ip, active_ips)
    /\ last_heartbeat_time_by_ip' =
           prune(last_heartbeat_time_by_ip, active_ips)
    /\ last_resource_time_by_ip' = prune(last_resource_time_by_ip, active_ips)
    /\ UNCHANGED <<resource_load_by_ip, timestamps_in_order>>

prune_active_ips(active_ips) ==
    /\ last_used_time_by_ip' = prune(last_used_time_by_ip, active_ips)
    /\ removed_log' = DOMAIN last_used_time_by_ip \ active_ips
    /\ static_resources_by_ip' = prune(static_resources_by_ip, active_ips)
    /\ node_id_by_ip' = prune(node_id_by_ip, active_ips)
    /\ dynamic_resources_by_ip' = prune(dynamic_resources_by_ip, active_ips)
    /\ resource_load_by_ip' = prune(resource_load_by_ip, active_ips)
    /\ last_heartbeat_time_by_ip' =
           prune(last_heartbeat_time_by_ip, active_ips)
    /\ last_resource_time_by_ip' = prune(last_resource_time_by_ip, active_ips)
    /\ UNCHANGED timestamps_in_order

PruneActiveIps ==
    /\ Idle
    /\ \E active_ips \in SUBSET IPs :
        /\ prune_active_ips(active_ips)
        /\ call' = [op |-> "prune_active_ips", active_ips |-> active_ips,
                    before |-> MapsBefore]
    /\ UNCHANGED <<requestVars, updaterVars, restVars, configVars>>

----------------------------------------------------------------------------
(* NodeUpdater *)

READY_CHECK_INTERVAL == 5
INITIALIZATION_COMMAND_DEFAULT_NUMBER_OF_RETRIES == 30
SETUP_COMMAND_DEFAULT_NUMBER_OF_RETRIES == 5
START_COMMAND_DEFAULT_NUMBER_OF_RETRIES == 3

CLOUDTIK_TAG_NODE_STATUS == "cloudtik-node-status"
CLOUDTIK_TAG_RUNTIME_CONFIG == "cloudtik-runtime-config"
CLOUDTIK_TAG_FILE_MOUNTS_CONTENTS == "cloudtik-file-mounts-contents"
CLOUDTIK_TAG_QUORUM_JOIN == "cloudtik-quorum-join"

STATUS_WAITING_FOR_SSH == "waiting-for-ssh"
STATUS_BOOTSTRAPPING_DATA_DISKS == "bootstrapping-data-disks"
STATUS_SYNCING_FILES == "syncing-files"
STATUS_SETTING_UP == "setting-up"
STATUS_UP_TO_DATE == "up-to-date"
STATUS_UPDATE_FAILED == "update-failed"

QUORUM_JOIN_STATUS_SUCCESS == "success"
QUORUM_JOIN_STATUS_FAILED == "failed"

\* names of environment variables
CLOUDTIK_RESOURCES_ENV == "CLOUDTIK_RESOURCES"
CLOUDTIK_RUNTIME_ENV_NODE_ID == "CLOUDTIK_NODE_ID"
CLOUDTIK_RUNTIME_ENV_PROVIDER_TYPE == "CLOUDTIK_PROVIDER_TYPE"

\* Python's None, where the other values are strings
None == "None"

\* the runtime hash this Updater applies
runtime_hash == "h1"

\* dict.get(key): None when the key is missing
Get(d, key) == IF key \in DOMAIN d THEN d[key] ELSE None

\* dict.update
Updated(d, u) ==
    [k \in DOMAIN d \cup DOMAIN u |-> IF k \in DOMAIN u THEN u[k] ELSE d[k]]

\* a dict of one entry
Entry(key, value) == [k \in {key} |-> value]

\* the tags a node can carry when an Updater is started on it
InitialTags ==
    {t \in UNION {[S -> {"h0", "h1", "f1", STATUS_UP_TO_DATE, "pending"}] :
            S \in SUBSET {CLOUDTIK_TAG_NODE_STATUS, CLOUDTIK_TAG_RUNTIME_CONFIG,
                          CLOUDTIK_TAG_FILE_MOUNTS_CONTENTS,
                          CLOUDTIK_TAG_QUORUM_JOIN}} :
        /\ Get(t, CLOUDTIK_TAG_NODE_STATUS) \in {None, STATUS_UP_TO_DATE}
        /\ Get(t, CLOUDTIK_TAG_RUNTIME_CONFIG) \in {None, "h0", "h1"}
        /\ Get(t, CLOUDTIK_TAG_FILE_MOUNTS_CONTENTS) \in {None, "f1"}
        /\ Get(t, CLOUDTIK_TAG_QUORUM_JOIN) \in {None, "pending"}}

\* the command lists: "<kind>1", "<kind>2", ...
Digits == <<"1", "2", "3", "4">>
CommandLists(kind) ==
    {[i \in 1..n |-> kind \o Digits[i]] : n \in 0..MaxCommands}

\* the exit codes of a failing command
ExitCodes == {1, 127}

\* an exception is the record of its attributes
NoException == [type |-> "none"]
NoFailure == [cmd |-> None]

\* an exception made from a message: it has no attributes cmd and returncode
Exception(type, message) == [type |-> type, message |-> message]

\* an exception of the command executor that names its command
CommandException(cmd, returncode) ==
    [type |-> "CalledProcessError", message |-> "command failed",
     cmd |-> cmd, returncode |-> returncode]

hasattr(e, name) == name \in DOMAIN e

\* provider.set_node_tags(node_id, tags)
set_node_tags(tags) ==
    /\ provider_tags' = Updated(provider_tags, tags)
    /\ tag_writes' = Append(tag_writes, tags)

Running == pc \notin {"start", "aborted", "done", "returned", "raised"}

\* the provider terminates the node while the Updater works on it
NodeTerminated ==
    /\ Running
    /\ ~terminated
    /\ terminated' = TRUE
    /\ terminated_elapsed' = 0
    /\ UNCHANGED <<metricsVars, configVars, restVars, argVars, commandVars, provider_tags, tag_writes, executed,
                   allow_interactive, output_redirected, pc, restart_only,
                   initialization_commands, setup_commands, start_commands,
                   file_mounts_contents_hash, node_tags, init_required,
                   cmd_index, wait_elapsed, failed, exc, reported, exitcode>>

\* time goes by on a terminated node while the Updater is at work: more than
\* one READY_CHECK_INTERVAL since the provider first reported the termination
RetryIntervalPasses ==
    /\ Running
    /\ terminated
    /\ ~(terminated_elapsed > READY_CHECK_INTERVAL)
    /\ terminated_elapsed' = READY_CHECK_INTERVAL + 1
    /\ UNCHANGED <<metricsVars, configVars, restVars, argVars, commandVars, provider_tags, tag_writes, terminated,
                   executed, allow_interactive, output_redirected, pc,
                   restart_only, initialization_commands, setup_commands,
                   start_commands, file_mounts_contents_hash, node_tags,
                   init_required, cmd_index, wait_elapsed, failed, exc,
                   reported, exitcode>>

fieldVars == <<restart_only, initialization_commands, setup_commands,
               start_commands, file_mounts_contents_hash>>

\* an exception leaves do_update: control goes to run's except clause
Raise(e) ==
    /\ exc' = e
    /\ pc' = "except"

\* run, lines 151-166: abort on a redirected interactive context, else enter
\* do_update
RunStart ==
    /\ pc = "start"
    /\ pc' = IF allow_interactive /\ output_redirected
             THEN "aborted" ELSE "do_update"
    /\ UNCHANGED <<metricsVars, configVars, restVars, argVars, commandVars, provider_tags, tag_writes, terminated,
                   terminated_elapsed,
                   executed, allow_interactive, output_redirected, fieldVars,
                   node_tags, init_required, cmd_index, wait_elapsed, failed,
                   exc, reported, exitcode>>

\* do_update, lines 434-440
SetWaitingForSsh ==
    /\ pc = "do_update"
    /\ set_node_tags(Entry(CLOUDTIK_TAG_NODE_STATUS, STATUS_WAITING_FOR_SSH))
    /\ wait_elapsed' = 0
    /\ pc' = "wait_ready"
    /\ UNCHANGED <<metricsVars, configVars, restVars, argVars, commandVars, terminated,
                   terminated_elapsed, executed, allow_interactive,
                   output_redirected, fieldVars, node_tags, init_required,
                   cmd_index, failed, exc, reported, exitcode>>

\* mutant: the deadline is noticed one sleep late
DeadlinePassedLate == wait_elapsed > MaxWait + READY_CHECK_INTERVAL

\* wait_ready, line 302: time.time() > deadline, the deadline being MaxWait
\* seconds after wait_ready was entered
DeadlinePassed == wait_elapsed > MaxWait

\* mutant: the loop is left at the deadline without raising
WaitReadyTimeoutIgnored ==
    /\ pc = "wait_ready"
    /\ DeadlinePassed
    /\ pc' = "node_tags"
    /\ UNCHANGED <<metricsVars, configVars, restVars, argVars, commandVars,
                   provider_tags, tag_writes, terminated, terminated_elapsed,
                   executed, allow_interactive, output_redirected, fieldVars,
                   node_tags, init_required, cmd_index, wait_elapsed, failed,
                   exc, reported, exitcode>>

\* wait_ready, lines 302-305
WaitReadyTimeout ==
    /\ pc = "wait_ready"
    /\ DeadlinePassed
    /\ Raise(Exception("Exception", "Waiting for node ready timeout."))
    /\ UNCHANGED <<metricsVars, configVars, restVars, argVars, commandVars, provider_tags, tag_writes, terminated,
                   terminated_elapsed,
                   executed, allow_interactive, output_redirected, fieldVars,
                   node_tags, init_required, cmd_index, wait_elapsed, failed, reported,
                   exitcode>>

\* wait_ready, lines 306-310
WaitReadyTerminated ==
    /\ pc = "wait_ready"
    /\ ~DeadlinePassed
    /\ terminated
    /\ Raise(Exception("Exception", "node detected as terminated."))
    /\ UNCHANGED <<metricsVars, configVars, restVars, argVars, commandVars, provider_tags, tag_writes, terminated,
                   terminated_elapsed,
                   executed, allow_interactive, output_redirected, fieldVars,
                   node_tags, init_required, cmd_index, wait_elapsed, failed, reported,
                   exitcode>>

\* wait_ready, lines 312-318: uptime succeeds
WaitReadySuccess ==
    /\ pc = "wait_ready"
    /\ ~DeadlinePassed
    /\ ~terminated
    /\ executed' = Append(executed, "uptime")
    /\ pc' = "node_tags"
    /\ UNCHANGED <<metricsVars, configVars, restVars, argVars, commandVars, provider_tags, tag_writes, terminated,
                   terminated_elapsed,
                   allow_interactive, output_redirected, fieldVars, node_tags,
                   init_required, cmd_index, wait_elapsed, failed, exc, reported,
                   exitcode>>

\* wait_ready, lines 319-352: uptime fails, sleep and try again
WaitReadyRetry ==
    /\ pc = "wait_ready"
    /\ ~DeadlinePassed
    /\ ~terminated
    /\ wait_elapsed' = wait_elapsed + READY_CHECK_INTERVAL
    /\ UNCHANGED <<metricsVars, configVars, restVars, argVars, commandVars, provider_tags, tag_writes, terminated,
                   terminated_elapsed,
                   executed, allow_interactive, output_redirected, pc,
                   fieldVars, node_tags, init_required, cmd_index, failed,
                   exc, reported, exitcode>>

\* do_update, lines 448-454
ReadNodeTags ==
    /\ pc = "node_tags"
    /\ node_tags' = provider_tags
    /\ pc' = IF Get(provider_tags, CLOUDTIK_TAG_RUNTIME_CONFIG) = runtime_hash
             THEN "run_init" ELSE "restart_only"
    /\ UNCHANGED <<metricsVars, configVars, restVars, argVars, commandVars, provider_tags, tag_writes, terminated,
                   terminated_elapsed,
                   executed, allow_interactive, output_redirected, fieldVars,
                   init_required, cmd_index, wait_elapsed, failed, exc,
                   reported, exitcode>>

\* mutant: restart_only survives a container that has to be set up again
RestartOnlyKept(required) == restart_only

\* do_update, lines 462-465: self.restart_only after run_init
RestartOnlyAfterInit(required) == IF required THEN FALSE ELSE restart_only

\* do_update, lines 457-465: run_init(sync_run_yet=False) says whether the
\* container has to be set up again
RunInitCheck ==
    /\ pc = "run_init"
    /\ executed' = Append(executed, "run_init")
    /\ \E required \in BOOLEAN :
        /\ init_required' = IF required THEN "true" ELSE "false"
        /\ IF required
           THEN /\ node_tags' =
                       Updated(node_tags,
                           Entry(CLOUDTIK_TAG_RUNTIME_CONFIG,
                               node_tags[CLOUDTIK_TAG_RUNTIME_CONFIG]
                                   \o "-invalidate"))
           ELSE UNCHANGED node_tags
        /\ restart_only' = RestartOnlyAfterInit(required)
    /\ pc' = "restart_only"
    /\ UNCHANGED <<metricsVars, configVars, restVars, argVars, commandVars, provider_tags, tag_writes, terminated,
                   terminated_elapsed,
                   allow_interactive, output_redirected,
                   initialization_commands, setup_commands, start_commands,
                   file_mounts_contents_hash, cmd_index, wait_elapsed, failed,
                   exc, reported, exitcode>>

\* mutant: the file mounts count as unchanged only when a hash is given
IsUpToDateHashGiven(tags) ==
    /\ Get(tags, CLOUDTIK_TAG_RUNTIME_CONFIG) = runtime_hash
    /\ file_mounts_contents_hash # None
    /\ Get(tags, CLOUDTIK_TAG_FILE_MOUNTS_CONTENTS) = file_mounts_contents_hash

\* do_update, lines 474-477: the configuration is already up to date
IsUpToDate(tags) ==
    /\ Get(tags, CLOUDTIK_TAG_RUNTIME_CONFIG) = runtime_hash
    /\ \/ file_mounts_contents_hash \in {None, ""}
       \/ Get(tags, CLOUDTIK_TAG_FILE_MOUNTS_CONTENTS) =
              file_mounts_contents_hash

\* mutant: the setup commands are kept whatever restart_only says
SetupCommandsKept == setup_commands

\* do_update, lines 467-468: self.setup_commands of a restart
SetupCommandsToRun == IF restart_only THEN <<>> ELSE setup_commands

\* do_update, lines 467-486
CheckRestartOnly ==
    /\ pc = "restart_only"
    /\ setup_commands' = SetupCommandsToRun
    /\ cmd_index' = 1
    /\ pc' = IF IsUpToDate(node_tags)
             THEN "start_commands" ELSE "bootstrapping_data_disks"
    /\ UNCHANGED <<metricsVars, configVars, restVars, argVars, commandVars, provider_tags, tag_writes, terminated,
                   terminated_elapsed,
                   executed, allow_interactive, output_redirected,
                   restart_only, initialization_commands, start_commands,
                   file_mounts_contents_hash, node_tags, init_required,
                   wait_elapsed, failed, exc, reported, exitcode>>

\* mutant: the status written before the data disks are prepared
StatusBeforeDataDisksLate == STATUS_SETTING_UP

\* do_update, line 494
StatusBeforeDataDisks == STATUS_BOOTSTRAPPING_DATA_DISKS

\* do_update, lines 493-497
SetBootstrappingDataDisks ==
    /\ pc = "bootstrapping_data_disks"
    /\ set_node_tags(Entry(CLOUDTIK_TAG_NODE_STATUS, StatusBeforeDataDisks))
    /\ pc' = "bootstrap_data_disks"
    /\ UNCHANGED <<metricsVars, configVars, restVars, argVars, commandVars, terminated,
                   terminated_elapsed, executed, allow_interactive,
                   output_redirected, fieldVars, node_tags, init_required,
                   cmd_index, wait_elapsed, failed, exc, reported, exitcode>>

\* an executor call that is no command of the lists: it returns, or it raises
ExecutorCall(at, what, next) ==
    /\ pc = at
    /\ executed' = executed \o what
    /\ \/ pc' = next /\ UNCHANGED exc
       \/ Raise(Exception("ProcessRunnerError", "command failed"))
       \/ Raise(CommandException(what[Len(what)], 1))
    /\ UNCHANGED <<metricsVars, configVars, restVars, argVars, commandVars, provider_tags, tag_writes, terminated,
                   terminated_elapsed,
                   allow_interactive, output_redirected, fieldVars, node_tags,
                   init_required, cmd_index, wait_elapsed, failed, reported, exitcode>>

\* do_update, line 498
BootstrapDataDisks ==
    ExecutorCall("bootstrap_data_disks", <<"bootstrap_data_disks">>,
                 "syncing_files")

\* mutant: the tag of the step before is written once more
StatusBeforeFileSyncStale == STATUS_BOOTSTRAPPING_DATA_DISKS

\* do_update, lines 500-501: the status written before the file mounts are
\* synced
StatusBeforeFileSync == STATUS_SYNCING_FILES

\* do_update, lines 500-504
SetSyncingFiles ==
    /\ pc = "syncing_files"
    /\ set_node_tags(Entry(CLOUDTIK_TAG_NODE_STATUS, StatusBeforeFileSync))
    /\ pc' = "sync_file_mounts"
    /\ UNCHANGED <<metricsVars, configVars, restVars, argVars, commandVars, terminated,
                   terminated_elapsed, executed, allow_interactive,
                   output_redirected, fieldVars, node_tags, init_required,
                   cmd_index, wait_elapsed, failed, exc, reported, exitcode>>

\* do_update, lines 505-511, and sync_file_mounts: mkdir and rsync of the
\* file mounts
SyncFileMounts ==
    ExecutorCall("sync_file_mounts", <<"mkdir", "rsync">>,
        IF Get(node_tags, CLOUDTIK_TAG_RUNTIME_CONFIG) # runtime_hash
        THEN "setting_up" ELSE "start_commands")

\* do_update, lines 513-517
SetSettingUp ==
    /\ pc = "setting_up"
    /\ set_node_tags(Entry(CLOUDTIK_TAG_NODE_STATUS, STATUS_SETTING_UP))
    /\ pc' = "initialization_commands"
    /\ UNCHANGED <<metricsVars, configVars, restVars, argVars, commandVars, terminated,
                   terminated_elapsed, executed, allow_interactive,
                   output_redirected, fieldVars, node_tags, init_required,
                   cmd_index, wait_elapsed, failed, exc, reported, exitcode>>

\* get_config_option(config, name, default): the option, or the default
\* when the config does not set it
get_config_option(name, default) ==
    IF name \in DOMAIN updater_config THEN updater_config[name] ELSE default

\* get_update_environment_variables, lines 362-415: the environment block
\* every command of the lists is given
runtime_envs ==
    Updated(Entry(CLOUDTIK_RUNTIME_ENV_NODE_ID, "n1"),
        IF updater_provider_type # None
        THEN Entry(CLOUDTIK_RUNTIME_ENV_PROVIDER_TYPE, updater_provider_type)
        ELSE EmptyMap)

\* _exec_initialization_command, lines 605-607: number_of_retries of
\* run_with_retry
InitializationRetries ==
    get_config_option("number_of_retries",
                      INITIALIZATION_COMMAND_DEFAULT_NUMBER_OF_RETRIES)

\* mutant: setup commands are retried as often as initialization commands
SetupRetriesAsInitialization ==
    IF get_config_option("retry_setup_command", TRUE)
    THEN get_config_option("number_of_retries",
                           INITIALIZATION_COMMAND_DEFAULT_NUMBER_OF_RETRIES)
    ELSE 0

\* _exec_setup_command, lines 660-669: run_with_retry with number_of_retries,
\* or a plain run, which makes one attempt
SetupRetries ==
    IF get_config_option("retry_setup_command", TRUE)
    THEN get_config_option("number_of_retries",
                           SETUP_COMMAND_DEFAULT_NUMBER_OF_RETRIES)
    ELSE 0

\* _exec_start_command, lines 727-741
StartRetries ==
    IF get_config_option("retry_start_command", TRUE)
    THEN get_config_option("number_of_retries",
                           START_COMMAND_DEFAULT_NUMBER_OF_RETRIES)
    ELSE 0

\* _exec_start_command, lines 708-717: env_vars, the environment block with
\* the resource override
StartEnvVars ==
    Updated(IF updater_provider_type = "onpremise"
            THEN EmptyMap
            ELSE IF node_resources # None
                 THEN Entry(CLOUDTIK_RESOURCES_ENV, node_resources)
                 ELSE EmptyMap,
            runtime_envs)

\* _exec_start_command, lines 727-741: environment_variables of the call
StartEnvironment ==
    IF get_config_option("retry_start_command", TRUE)
    THEN runtime_envs
    ELSE StartEnvVars

\* run_with_retry: after a failed attempt the command is tried again while
\* fewer than number_of_retries retries were made
RetryAllowed(number_of_retries) == attempts < number_of_retries

\* one command of a list: an attempt succeeds, or it fails with
\* ssh_command_failed and is retried, or it fails for the last time and the
\* ProcessRunnerError is replaced by a click.ClickException with a message
ExecCommand(at, commands, message, next, number_of_retries, env) ==
    /\ pc = at
    /\ IF cmd_index > Len(commands)
       THEN /\ pc' = next
            /\ cmd_index' = 1
            /\ UNCHANGED <<executed, failed, exc, attempts, command_env>>
       ELSE /\ executed' = IF attempts = 0
                           THEN Append(executed, commands[cmd_index])
                           ELSE executed
            /\ command_env' = env
            /\ \/ /\ cmd_index' = cmd_index + 1
                  /\ attempts' = 0
                  /\ UNCHANGED <<pc, failed, exc>>
               \/ /\ RetryAllowed(number_of_retries)
                  /\ attempts' = attempts + 1
                  /\ UNCHANGED <<pc, cmd_index, failed, exc>>
               \/ /\ ~RetryAllowed(number_of_retries)
                  /\ \E code \in ExitCodes :
                         failed' = [cmd |-> commands[cmd_index],
                                    returncode |-> code]
                  /\ Raise(Exception("ClickException", message))
                  /\ UNCHANGED <<cmd_index, attempts>>

\* _exec_initialization_commands, lines 576-618
ExecInitializationCommand ==
    /\ ExecCommand("initialization_commands", initialization_commands,
                   "Initialization command failed.", "run_init_sync",
                   InitializationRetries, runtime_envs)
    /\ UNCHANGED <<metricsVars, configVars, restVars, argVars, provider_tags, tag_writes,
                   terminated, terminated_elapsed, allow_interactive,
                   output_redirected, fieldVars, node_tags, init_required,
                   wait_elapsed, reported, exitcode>>

\* mutant: the setup commands are passed over
RunInitSyncThenStart ==
    ExecutorCall("run_init_sync", <<"run_init">>, "start_commands")

\* do_update, lines 533-537: run_init(sync_run_yet=True)
RunInitSync ==
    ExecutorCall("run_init_sync", <<"run_init">>, "setup_commands")

\* _exec_setup_commands, lines 620-681
ExecSetupCommand ==
    /\ ExecCommand("setup_commands", setup_commands,
                   "Setup command failed.", "start_commands",
                   SetupRetries, runtime_envs)
    /\ UNCHANGED <<metricsVars, configVars, restVars, argVars, provider_tags, tag_writes,
                   terminated, terminated_elapsed, allow_interactive,
                   output_redirected, fieldVars, node_tags, init_required,
                   wait_elapsed, reported, exitcode>>

\* _exec_start_commands, lines 683-749: the output redirection is switched
\* off for the command and restored when it returns
ExecStartCommand ==
    /\ ExecCommand("start_commands", start_commands,
                   "Start command failed.", "success",
                   StartRetries, StartEnvironment)
    /\ output_redirected' =
           IF exc' # exc THEN FALSE ELSE output_redirected
    /\ UNCHANGED <<metricsVars, configVars, restVars, argVars, provider_tags, tag_writes,
                   terminated, terminated_elapsed, allow_interactive,
                   fieldVars, node_tags, init_required, wait_elapsed,
                   reported, exitcode>>

\* mutant: the failure is recorded on the quorum tag only
FailureTagsQuorumOnly(tags) ==
    IF CLOUDTIK_TAG_QUORUM_JOIN \in DOMAIN tags
    THEN Entry(CLOUDTIK_TAG_QUORUM_JOIN, QUORUM_JOIN_STATUS_FAILED)
    ELSE EmptyMap

\* run, lines 168-171: tags_to_set of a failed update
FailureTags(tags) ==
    Updated(Entry(CLOUDTIK_TAG_NODE_STATUS, STATUS_UPDATE_FAILED),
            IF CLOUDTIK_TAG_QUORUM_JOIN \in DOMAIN tags
            THEN Entry(CLOUDTIK_TAG_QUORUM_JOIN, QUORUM_JOIN_STATUS_FAILED)
            ELSE EmptyMap)

\* run, lines 167-196: the except clause
RunExcept ==
    /\ pc = "except"
    /\ set_node_tags(FailureTags(provider_tags))
    /\ reported' = IF hasattr(exc, "cmd")
                   THEN [cmd |-> exc.cmd, returncode |-> exc.returncode]
                   ELSE [message |-> exc.message]
    /\ pc' = IF exc.type = "ClickException" THEN "returned" ELSE "raised"
    /\ UNCHANGED <<metricsVars, configVars, restVars, argVars, commandVars, terminated,
                   terminated_elapsed, executed, allow_interactive,
                   output_redirected, fieldVars, node_tags, init_required,
                   cmd_index, wait_elapsed, failed, exc, exitcode>>

\* mutant: the runtime hash is left out of the tags of success
SuccessTagsStatusOnly(tags) ==
    Updated(Entry(CLOUDTIK_TAG_NODE_STATUS, STATUS_UP_TO_DATE),
        Updated(IF CLOUDTIK_TAG_QUORUM_JOIN \in DOMAIN tags
                THEN Entry(CLOUDTIK_TAG_QUORUM_JOIN, QUORUM_JOIN_STATUS_SUCCESS)
                ELSE EmptyMap,
                IF file_mounts_contents_hash # None
                THEN Entry(CLOUDTIK_TAG_FILE_MOUNTS_CONTENTS,
                           file_mounts_contents_hash)
                ELSE EmptyMap))

\* mutant: the quorum-join tag is written whether or not the node carries one
SuccessTagsQuorumAlways(tags) ==
    Updated(Updated(Entry(CLOUDTIK_TAG_NODE_STATUS, STATUS_UP_TO_DATE),
                    Entry(CLOUDTIK_TAG_RUNTIME_CONFIG, runtime_hash)),
        Updated(Entry(CLOUDTIK_TAG_QUORUM_JOIN, QUORUM_JOIN_STATUS_SUCCESS),
                IF file_mounts_contents_hash # None
                THEN Entry(CLOUDTIK_TAG_FILE_MOUNTS_CONTENTS,
                           file_mounts_contents_hash)
                ELSE EmptyMap))

\* run, lines 198-207: tags_to_set of a successful update
SuccessTags(tags) ==
    Updated(Updated(Entry(CLOUDTIK_TAG_NODE_STATUS, STATUS_UP_TO_DATE),
                    Entry(CLOUDTIK_TAG_RUNTIME_CONFIG, runtime_hash)),
        Updated(IF CLOUDTIK_TAG_QUORUM_JOIN \in DOMAIN tags
                THEN Entry(CLOUDTIK_TAG_QUORUM_JOIN, QUORUM_JOIN_STATUS_SUCCESS)
                ELSE EmptyMap,
                IF file_mounts_contents_hash # None
                THEN Entry(CLOUDTIK_TAG_FILE_MOUNTS_CONTENTS,
                           file_mounts_contents_hash)
                ELSE EmptyMap))

\* run, lines 198-215
RunSuccess ==
    /\ pc = "success"
    /\ set_node_tags(SuccessTags(provider_tags))
    /\ exitcode' = 0
    /\ pc' = "done"
    /\ UNCHANGED <<metricsVars, configVars, restVars, argVars, commandVars, terminated,
                   terminated_elapsed, executed, allow_interactive,
                   output_redirected, fieldVars, node_tags, init_required,
                   cmd_index, wait_elapsed, failed, exc, reported>>

\* the options a cluster config can set: number_of_retries or not, and each
\* of the retry switches off or not
Configs ==
    {Updated(Updated(n, s), t) :
        n \in {EmptyMap} \cup {Entry("number_of_retries", k) : k \in 1..2},
        s \in {EmptyMap, Entry("retry_setup_command", FALSE)},
        t \in {EmptyMap, Entry("retry_start_command", FALSE)}}

\* a config that retries a failing command once, initialization commands only
PlainConfig ==
    [k \in {"number_of_retries", "retry_setup_command", "retry_start_command"}
        |-> IF k = "number_of_retries" THEN 1 ELSE FALSE]

\* the serialized resource bundle of a node type
ResourceOverride == "{CPU: 4}"

\* run() has not been called yet
NotStarted ==
    /\ tag_writes = <<>>
    /\ terminated = FALSE
    /\ terminated_elapsed = 0
    /\ executed = <<>>
    /\ pc = "start"
    /\ node_tags = EmptyMap
    /\ init_required = None
    /\ cmd_index = 1
    /\ wait_elapsed = 0
    /\ failed = NoFailure
    /\ exc = NoException
    /\ reported = NoException
    /\ exitcode = -1
    /\ attempts = 0
    /\ command_env = EmptyMap
    /\ restart_only_arg = restart_only

\* __init__, lines 97-145, on a node carrying some tags
InitUpdater ==
    /\ provider_tags \in InitialTags
    /\ allow_interactive \in BOOLEAN
    /\ output_redirected \in BOOLEAN
    /\ restart_only \in BOOLEAN
    /\ initialization_commands \in CommandLists("init")
    /\ setup_commands \in CommandLists("setup")
    /\ start_commands \in CommandLists("start")
    /\ file_mounts_contents_hash \in {None, "", "f1"}
    /\ updater_config = PlainConfig
    /\ updater_provider_type = "aws"
    /\ node_resources = None
    /\ NotStarted

\* __init__, lines 97-145, with every command list filled, under the configs
\* and on the providers that tell how a command is run
InitCommands ==
    /\ provider_tags \in
           {EmptyMap, Entry(CLOUDTIK_TAG_RUNTIME_CONFIG, runtime_hash)}
    /\ allow_interactive = FALSE
    /\ output_redirected = FALSE
    /\ restart_only = FALSE
    /\ initialization_commands = [i \in 1..MaxCommands |-> "init" \o Digits[i]]
    /\ setup_commands = [i \in 1..MaxCommands |-> "setup" \o Digits[i]]
    /\ start_commands = [i \in 1..MaxCommands |-> "start" \o Digits[i]]
    /\ file_mounts_contents_hash = None
    /\ updater_config \in Configs
    /\ updater_provider_type \in {"aws", "onpremise"}
    /\ node_resources \in {None, ResourceOverride}
    /\ NotStarted

\* __init__, lines 97-145, with more than one command in every list
InitOrdered ==
    /\ provider_tags \in InitialTags
    /\ allow_interactive = FALSE
    /\ output_redirected = FALSE
    /\ restart_only \in BOOLEAN
    /\ initialization_commands =
           [i \in 1..(MaxCommands + 1) |-> "init" \o Digits[i]]
    /\ setup_commands = [i \in 1..(MaxCommands + 1) |-> "setup" \o Digits[i]]
    /\ start_commands = [i \in 1..(MaxCommands + 1) |-> "start" \o Digits[i]]
    /\ file_mounts_contents_hash = None
    /\ updater_config = PlainConfig
    /\ updater_provider_type = "aws"
    /\ node_resources = None
    /\ NotStarted

\* no Updater is started
NoUpdater ==
    /\ provider_tags = EmptyMap
    /\ allow_interactive = FALSE
    /\ output_redirected = FALSE
    /\ restart_only = FALSE
    /\ initialization_commands = <<>>
    /\ setup_commands = <<>>
    /\ start_commands = <<>>
    /\ file_mounts_contents_hash = None
    /\ updater_config = EmptyMap
    /\ updater_provider_type = None
    /\ node_resources = None
    /\ NotStarted

----------------------------------------------------------------------------
(* Cluster config: _bootstrap_config and its cache *)

CONFIG_CACHE_VERSION == 1

\* the provider types _NODE_PROVIDERS has an importer for
_NODE_PROVIDERS == {"aws", "gcp"}

\* the results a provider can resolve a config to (subnets, security groups)
Resolutions == {"r1", "r2"}

\* the configs a user writes: nothing is prepared or resolved in them
RawConfigs ==
    [name : {"c"}, provider_type : _NODE_PROVIDERS \cup {"other"},
     stage : {"raw"}, runtime : {"none"}, resolution : {""},
     bootstrapped : {FALSE}]

\* the configs a resolution ends with
ResolvedConfigs ==
    [name : {"c"}, provider_type : _NODE_PROVIDERS, stage : {"resolved"},
     runtime : {"none", "bootstrapped"}, resolution : Resolutions,
     bootstrapped : {TRUE}]

\* a config resolved by an earlier release
OldConfig ==
    [name |-> "c", provider_type |-> "aws", stage |-> "resolved",
     runtime |-> "bootstrapped", resolution |-> "r0", bootstrapped |-> TRUE]

prepare_config(config) == [config EXCEPT !.stage = "prepared"]

\* the hash of the prepared config: of everything in it
get_json_object_hash(config) ==
    config.name \o "-" \o config.provider_type \o "-" \o config.stage
        \o "-" \o config.runtime \o "-" \o config.resolution

cache_key(config_hash) == "cloudtik-config-" \o config_hash

\* provider_cls.post_prepare
post_prepare(config) == [config EXCEPT !.stage = "post_prepared"]

runtime_prepare_config(config) == [config EXCEPT !.runtime = "prepared"]

\* provider_cls.bootstrap_config: the provider resolves the config, which
\* gains the flag bootstrapped
bootstrap_config(config, resolution) ==
    [config EXCEPT !.stage = "resolved", !.resolution = resolution,
                   !.bootstrapped = TRUE]

runtime_bootstrap_config(resolved_config) ==
    [resolved_config EXCEPT !.runtime = "bootstrapped"]

\* encrypt_config and decrypt_config: only a ciphertext can be decrypted
encrypt_config(config) == [cipher |-> config]
IsDecryptable(encrypted_config) == "cipher" \in DOMAIN encrypted_config
decrypt_config(encrypted_config) == encrypted_config.cipher
Undecryptable == [noise |-> TRUE]

\* json.dumps and json.loads: only a JSON text can be loaded
json_dumps(obj) == [json |-> obj]
IsJson(text) == "json" \in DOMAIN text
json_loads(text) == text.json

\* a file written with open_with_mode(cache_key, "w", os_mode=0o600)
FileWritten(text) == [text |-> text, mode |-> "0o600"]

\* what a cache file can hold that no resolution of this release wrote: no
\* JSON, a record of another version, a record without the config field, a
\* record whose config cannot be decrypted
DamagedFiles ==
    {[text |-> [noise |-> TRUE]],
     [text |-> json_dumps([_version |-> 0, provider_log_info |-> None,
                           config |-> encrypt_config(OldConfig)])],
     [text |-> json_dumps([provider_log_info |-> None,
                           config |-> encrypt_config(OldConfig)])],
     [text |-> json_dumps([_version |-> CONFIG_CACHE_VERSION,
                           provider_log_info |-> None])],
     [text |-> json_dumps([_version |-> CONFIG_CACHE_VERSION,
                           provider_log_info |-> None,
                           config |-> Undecryptable])]}

\* the cache keys of the configs of a known provider
CacheKeys ==
    {cache_key(get_json_object_hash(prepare_config(config))) :
        config \in {c \in RawConfigs : c.provider_type \in _NODE_PROVIDERS}}

\* the log state of a provider module nothing was logged to
NoLogState == "{}"

\* try_get_log_state
try_get_log_state(provider_type) ==
    IF provider_type = "aws" THEN provider_log_state ELSE None

\* mutant: the stored log state is never reloaded
try_reload_log_state_never(provider_type, log_state) == provider_log_state

\* try_reload_log_state: the provider's log state after it
try_reload_log_state(provider_type, log_state) ==
    IF log_state \in {None, NoLogState} THEN provider_log_state
    ELSE IF provider_type = "aws" THEN log_state
    ELSE provider_log_state

\* mutant: the cache file is written only when asked to initialize it
IsCacheWrittenInitOnly(no_config_cache, init_config_cache) ==
    init_config_cache

\* _bootstrap_config, line 123: whether the resolved config is cached
IsCacheWritten(no_config_cache, init_config_cache) ==
    ~no_config_cache \/ init_config_cache

\* the steps of a resolution that can fail
FailurePoints == {"validate_config", "bootstrap_config", "verify_config"}

\* _bootstrap_config returns
Returned(config, files, log_state, provider_calls, cache_read) ==
    [outcome |-> "returned", ret |-> config, cache_files |-> files,
     provider_log_state |-> log_state, provider_calls |-> provider_calls,
     cache_read |-> cache_read]

\* an exception leaves _bootstrap_config
Raised(exception, files, log_state, provider_calls, cache_read) ==
    [outcome |-> "raised", exception |-> exception, cache_files |-> files,
     provider_log_state |-> log_state, provider_calls |-> provider_calls,
     cache_read |-> cache_read]

\* the log state after provider_cls.bootstrap_config
LogStateResolved(provider_type, resolution) ==
    IF provider_type = "aws" THEN "log-" \o resolution ELSE provider_log_state

\* mutant: the cache file is written before the config is verified
FilesWhenVerifyFailsWritten(files, cache_key_, file) ==
    Put(files, cache_key_, file)

\* _bootstrap_config, lines 120-123: verify_config raises before the cache
\* file is opened, so the files are left as they were
FilesWhenVerifyFails(files, cache_key_, file) == files

\* _bootstrap_config, lines 87-134: the resolution through the provider
Resolve(config, cache_key_, no_config_cache, init_config_cache, skip_runtime_bootstrap, resolution, failure, cache_read) ==
    IF config.provider_type \notin _NODE_PROVIDERS
    THEN Raised("NotImplementedError", cache_files, provider_log_state,
                <<>>, cache_read)
    ELSE
    LET prepared == IF skip_runtime_bootstrap
                    THEN post_prepare(config)
                    ELSE runtime_prepare_config(post_prepare(config))
        bootstrapped == bootstrap_config(prepared, resolution)
        resolved_config == IF skip_runtime_bootstrap
                           THEN bootstrapped
                           ELSE runtime_bootstrap_config(bootstrapped)
        log_state == LogStateResolved(config.provider_type, resolution)
        config_cache ==
            [_version |-> CONFIG_CACHE_VERSION,
             provider_log_info |->
                 IF resolved_config.provider_type = "aws"
                 THEN log_state ELSE None,
             config |-> encrypt_config(resolved_config)]
    IN  IF failure = "validate_config"
        THEN Raised(failure, cache_files, provider_log_state,
                    <<"post_prepare">>, cache_read)
        ELSE IF failure = "bootstrap_config"
        THEN Raised(failure, cache_files, provider_log_state,
                    <<"post_prepare", "bootstrap_config">>, cache_read)
        ELSE IF failure = "verify_config"
        THEN Raised(failure,
                    FilesWhenVerifyFails(cache_files, cache_key_,
                        FileWritten(json_dumps(config_cache))),
                    log_state,
                    <<"post_prepare", "bootstrap_config">>, cache_read)
        ELSE Returned(resolved_config,
                      IF IsCacheWritten(no_config_cache, init_config_cache)
                      THEN Put(cache_files, cache_key_,
                               FileWritten(json_dumps(config_cache)))
                      ELSE cache_files,
                      log_state, <<"post_prepare", "bootstrap_config">>,
                      cache_read)

\* _bootstrap_config, lines 55-85: the cache file exists and is read
ReadCache(config, cache_key_, no_config_cache, init_config_cache, skip_runtime_bootstrap, resolution, failure) ==
    LET text == cache_files[cache_key_].text
    IN  IF ~IsJson(text)
        THEN Raised("JSONDecodeError", cache_files, provider_log_state,
                    <<>>, TRUE)
        ELSE
        LET config_cache == json_loads(text)
        IN  IF /\ "_version" \in DOMAIN config_cache
               /\ config_cache._version = CONFIG_CACHE_VERSION
            THEN IF "config" \notin DOMAIN config_cache
                 THEN Raised("KeyError", cache_files, provider_log_state,
                             <<>>, TRUE)
                 ELSE IF ~IsDecryptable(config_cache.config)
                 THEN Raised("decrypt_config", cache_files,
                             provider_log_state, <<>>, TRUE)
                 ELSE
                 LET cached_config == decrypt_config(config_cache.config)
                 IN  Returned(cached_config, cache_files,
                         try_reload_log_state(cached_config.provider_type,
                             Get(config_cache, "provider_log_info")),
                         <<>>, TRUE)
            ELSE Resolve(config, cache_key_, no_config_cache,
                         init_config_cache, skip_runtime_bootstrap,
                         resolution, failure, TRUE)

\* mutant: no config counts as bootstrapped
IsBootstrappedNever(config) == FALSE

\* _bootstrap_config, line 43: whether the config is returned as it is
IsBootstrapped(config) == config.bootstrapped

_bootstrap_config(config, no_config_cache, init_config_cache, skip_runtime_bootstrap, resolution, failure) ==
    IF IsBootstrapped(config)
    THEN Returned(config, cache_files, provider_log_state, <<>>, FALSE)
    ELSE
    LET prepared == prepare_config(config)
        config_hash == get_json_object_hash(prepared)
        cache_key_ == cache_key(config_hash)
    IN  IF cache_key_ \in DOMAIN cache_files /\ ~no_config_cache
        THEN ReadCache(prepared, cache_key_, no_config_cache,
                       init_config_cache, skip_runtime_bootstrap,
                       resolution, failure)
        ELSE Resolve(prepared, cache_key_, no_config_cache,
                     init_config_cache, skip_runtime_bootstrap,
                     resolution, failure, FALSE)

\* the config cache on entry to a call
CacheBefore ==
    [cache_files |-> cache_files, provider_log_state |-> provider_log_state]

BootstrapConfig ==
    /\ Idle
    /\ \E config \in RawConfigs \cup ResolvedConfigs,
          no_config_cache \in BOOLEAN, init_config_cache \in BOOLEAN,
          skip_runtime_bootstrap \in BOOLEAN,
          resolution \in Resolutions, failure \in FailurePoints \cup {"none"} :
        LET r == _bootstrap_config(config, no_config_cache, init_config_cache,
                                   skip_runtime_bootstrap, resolution, failure)
        IN  /\ cache_files' = r.cache_files
            /\ provider_log_state' = r.provider_log_state
            /\ call' = [op |-> "_bootstrap_config", config |-> config,
                        no_config_cache |-> no_config_cache,
                        init_config_cache |-> init_config_cache,
                        skip_runtime_bootstrap |-> skip_runtime_bootstrap,
                        result |-> r, before |-> CacheBefore]
    /\ UNCHANGED <<requestVars, ipVars, updaterVars, restVars>>

\* something else than a resolution of this release leaves a cache file
CacheFileDamaged ==
    /\ Idle
    /\ \E key \in CacheKeys, file \in DamagedFiles :
           cache_files' = Put(cache_files, key, file)
    /\ UNCHANGED <<metricsVars, updaterVars, restVars, provider_log_state>>

\* the temp dir is cleaned
CacheFileRemoved ==
    /\ Idle
    /\ \E key \in DOMAIN cache_files :
           cache_files' = [k \in DOMAIN cache_files \ {key} |-> cache_files[k]]
    /\ UNCHANGED <<metricsVars, updaterVars, restVars, provider_log_state>>

\* the next call is made in a new process
ProcessRestarted ==
    /\ Idle
    /\ provider_log_state # NoLogState
    /\ provider_log_state' = NoLogState
    /\ UNCHANGED <<metricsVars, updaterVars, restVars, cache_files>>

\* an empty cache directory, in a process that logged nothing
InitConfig ==
    /\ cache_files = EmptyMap
    /\ provider_log_state = NoLogState

\* open(cache_key, "w") leaves the file empty until something is written
\* and flushed: the empty text is no JSON
Truncated == [text |-> [empty |-> TRUE], mode |-> "0o600"]

\* _bootstrap_config, lines 123-124, in a second call, made with the default
\* no_config_cache and init_config_cache, that found no usable cache file
\* when it looked: it has resolved the config and opens the cache file for
\* writing; nothing in lines 55-57 or 123-133 takes a lock
ConcurrentWriterOpens ==
    /\ cache_writer = <<>>
    /\ \E config \in RawConfigs, skip_runtime_bootstrap \in BOOLEAN,
          resolution \in Resolutions :
        LET prepared == prepare_config(config)
            key == cache_key(get_json_object_hash(prepared))
            r == Resolve(prepared, key, FALSE, FALSE,
                         skip_runtime_bootstrap, resolution, "none", FALSE)
        IN  /\ config.provider_type \in _NODE_PROVIDERS
            /\ cache_files' = Put(cache_files, key, Truncated)
            /\ cache_writer' = <<key, r.cache_files[key]>>
    /\ UNCHANGED <<metricsVars, updaterVars, fleetVars, schedulerVars,
                   haproxyVars, provider_log_state>>

\* _bootstrap_config, lines 125-133, in the second call: the record is
\* built, written and the file closed
ConcurrentWriterWrites ==
    /\ cache_writer # <<>>
    /\ cache_files' = Put(cache_files, cache_writer[1], cache_writer[2])
    /\ cache_writer' = <<>>
    /\ UNCHANGED <<metricsVars, updaterVars, fleetVars, schedulerVars,
                   haproxyVars, provider_log_state>>

\* no second call
NoWriter == cache_writer = <<>>

----------------------------------------------------------------------------
(* Several NodeUpdaterThreads, each constructed with its own node_id *)

\* the nodes being brought up; the Updater of a node is named by its node_id
Nodes == {"n1", "n2"}

\* the tags a node of the fleet can carry when its Updater is started
FleetInitialTags ==
    {EmptyMap,
     Entry(CLOUDTIK_TAG_RUNTIME_CONFIG, runtime_hash),
     Updated(Entry(CLOUDTIK_TAG_RUNTIME_CONFIG, "h0"),
             Entry(CLOUDTIK_TAG_QUORUM_JOIN, "pending"))}

\* mutant: every Updater addresses the node of the first Updater
TargetNodeShared(u) == "n1"

\* self.node_id, the node every provider call of run and do_update names
\* (lines 169, 172, 207, 211, 434, 448, 493, 500, 513)
TargetNode(u) == u

\* provider.set_node_tags(self.node_id, tags) by Updater u
fleet_set_node_tags(u, tags) ==
    LET n == TargetNode(u)
    IN /\ cluster_tags' =
              [cluster_tags EXCEPT ![n] = Updated(cluster_tags[n], tags)]
       /\ cluster_tag_writes' =
              [cluster_tag_writes EXCEPT
                  ![n] = Append(cluster_tag_writes[n],
                                [by |-> u, tags |-> tags])]

\* the status written on entering a state of do_update, and the work that
\* follows it
StatusAt(at) ==
    CASE at = "do_update" -> STATUS_WAITING_FOR_SSH
      [] at = "bootstrapping_data_disks" -> STATUS_BOOTSTRAPPING_DATA_DISKS
      [] at = "syncing_files" -> STATUS_SYNCING_FILES
      [] at = "setting_up" -> STATUS_SETTING_UP
WorkAfter(at) ==
    CASE at = "do_update" -> "wait_ready"
      [] at = "bootstrapping_data_disks" -> "bootstrap_data_disks"
      [] at = "syncing_files" -> "sync_file_mounts"
      [] at = "setting_up" -> "commands"

\* do_update, lines 434-435, 493-494, 500-501, 513-514: Updater u writes the
\* status of the state it enters
FleetSetStatus(u) ==
    /\ fleet[u].pc \in {"do_update", "bootstrapping_data_disks",
                        "syncing_files", "setting_up"}
    /\ fleet_set_node_tags(u,
           Entry(CLOUDTIK_TAG_NODE_STATUS, StatusAt(fleet[u].pc)))
    /\ fleet' = [fleet EXCEPT ![u].pc = WorkAfter(fleet[u].pc)]

\* where do_update goes when the work of a state is done
AfterWork(u) ==
    CASE fleet[u].pc = "wait_ready" -> "node_tags"
      [] fleet[u].pc = "bootstrap_data_disks" -> "syncing_files"
      [] fleet[u].pc = "sync_file_mounts" ->
             IF Get(fleet[u].node_tags, CLOUDTIK_TAG_RUNTIME_CONFIG)
                    # runtime_hash
             THEN "setting_up" ELSE "start_commands"
      [] fleet[u].pc = "commands" -> "start_commands"
      [] fleet[u].pc = "start_commands" -> "success"

\* wait_ready, bootstrap_data_disks, sync_file_mounts and the command lists,
\* run on the Updater's own command executor: the work is done, or it raises
FleetWork(u) ==
    /\ fleet[u].pc \in {"wait_ready", "bootstrap_data_disks",
                        "sync_file_mounts", "commands", "start_commands"}
    /\ \/ fleet' = [fleet EXCEPT ![u].pc = AfterWork(u)]
       \/ fleet' = [fleet EXCEPT ![u].pc = "except"]
    /\ UNCHANGED <<cluster_tags, cluster_tag_writes>>

\* do_update, lines 448-486: Updater u reads the node's tags, run_init may ask
\* for a full setup, and the tags decide what is skipped
FleetReadNodeTags(u) ==
    /\ fleet[u].pc = "node_tags"
    /\ LET read == cluster_tags[TargetNode(u)]
           matches == Get(read, CLOUDTIK_TAG_RUNTIME_CONFIG) = runtime_hash
       IN \E required \in IF matches THEN BOOLEAN ELSE {FALSE} :
              LET tags == IF required
                          THEN Updated(read,
                                   Entry(CLOUDTIK_TAG_RUNTIME_CONFIG,
                                       read[CLOUDTIK_TAG_RUNTIME_CONFIG]
                                           \o "-invalidate"))
                          ELSE read
              IN fleet' = [fleet EXCEPT
                     ![u].node_tags = tags,
                     ![u].read_from = Append(fleet[u].read_from,
                                             TargetNode(u)),
                     ![u].pc = IF IsUpToDate(tags)
                               THEN "start_commands"
                               ELSE "bootstrapping_data_disks"]
    /\ UNCHANGED <<cluster_tags, cluster_tag_writes>>

\* run, lines 167-173: the except clause of Updater u
FleetExcept(u) ==
    /\ fleet[u].pc = "except"
    /\ fleet_set_node_tags(u, FailureTags(cluster_tags[TargetNode(u)]))
    /\ fleet' = [fleet EXCEPT
           ![u].read_from = Append(fleet[u].read_from, TargetNode(u)),
           ![u].pc = "returned"]

\* run, lines 198-211: Updater u ends well
FleetSuccess(u) ==
    /\ fleet[u].pc = "success"
    /\ fleet_set_node_tags(u, SuccessTags(cluster_tags[TargetNode(u)]))
    /\ fleet' = [fleet EXCEPT
           ![u].read_from = Append(fleet[u].read_from, TargetNode(u)),
           ![u].pc = "done"]

\* one step of one of the Updater threads
FleetStep(u) ==
    /\ \/ FleetSetStatus(u)
       \/ FleetWork(u)
       \/ FleetReadNodeTags(u)
       \/ FleetExcept(u)
       \/ FleetSuccess(u)
    /\ UNCHANGED <<metricsVars, updaterVars, configVars, writerVars,
                   schedulerVars, haproxyVars>>

\* NodeUpdaterThread.__init__, lines 791-794: one Updater per node, none
\* started yet
InitFleet ==
    /\ cluster_tags \in [Nodes -> FleetInitialTags]
    /\ cluster_tag_writes = [n \in Nodes |-> <<>>]
    /\ fleet = [u \in Nodes |->
                   [pc |-> "do_update", node_tags |-> EmptyMap,
                    read_from |-> <<>>]]

\* no fleet of Updaters
NoFleet ==
    /\ cluster_tags = EmptyMap
    /\ cluster_tag_writes = EmptyMap
    /\ fleet = EmptyMap

----------------------------------------------------------------------------
(* ResourceDemandScheduler, and steps 4 to 6 of the ClusterController tick *)

\* the node types of the catalog, in declaration order
NodeTypes == <<"worker-small", "worker-large">>
TypeNames == Range(NodeTypes)

\* the resource bundle of each node type: its CPUs
TypeResources == [t \in TypeNames |-> IF t = "worker-small" THEN 2 ELSE 4]

\* the ids the provider gives to the workers it launches, lowest free first
WorkerIds == <<"w1", "w2">>

\* the CPUs a demand or a request asks for; no node type has 8 of them
CpuAmounts == {1, 4, 8}

RECURSIVE SumTypes(_, _)
\* the sum of f over the node types from the i-th on
SumTypes(f, i) ==
    IF i > Len(NodeTypes) THEN 0
    ELSE f[NodeTypes[i]] + SumTypes(f, i + 1)

\* a validated config: no type asks for more workers at least than at most,
\* and the cluster may hold the least of every type
IsValidCatalog(catalog) ==
    /\ \A t \in TypeNames :
           catalog.available_node_types[t].min_workers
               <= catalog.available_node_types[t].max_workers
    /\ SumTypes([t \in TypeNames |->
                    catalog.available_node_types[t].min_workers], 1)
           <= catalog.max_workers

\* the configs the scheduler is run with
Catalogs ==
    {catalog \in
         [available_node_types :
              {a \in [TypeNames -> [resources : {2, 4}, min_workers : 0..1,
                                    max_workers : 1..2]] :
                  \A t \in TypeNames : a[t].resources = TypeResources[t]},
          max_workers : 1..Len(WorkerIds),
          idle_timeout_minutes : {1}] :
        IsValidCatalog(catalog)}

MinWorkers(catalog, t) == catalog.available_node_types[t].min_workers
MaxWorkers(catalog, t) == catalog.available_node_types[t].max_workers

\* the workers of type t among nodes
NodesOfType(nodes, t) == {n \in DOMAIN nodes : nodes[n].node_type = t}

\* the least element of a set of numbers that is not empty
Least(S) == CHOOSE i \in S : \A j \in S : i <= j

\* the score of a bundle: the sum of its amounts
Score(bundle) == bundle

RECURSIVE SortedByScore(_)
\* step 3: the workload with the richest bundle first
SortedByScore(workload) ==
    IF workload = <<>> THEN <<>>
    ELSE LET m == Least({i \in 1..Len(workload) :
                            \A j \in 1..Len(workload) :
                                Score(workload[j]) <= Score(workload[i])})
         IN  <<workload[m]>> \o
             SortedByScore([i \in 1..(Len(workload) - 1) |->
                               IF i < m THEN workload[i]
                               ELSE workload[i + 1]])

\* step 1: nothing is placed yet; every node has the capacity of its type
NothingPlaced(catalog, nodes) ==
    [residual |-> [n \in DOMAIN nodes |->
                      catalog.available_node_types[nodes[n].node_type]
                          .resources],
     launched |-> <<>>,
     unschedulable |-> <<>>]

\* step 3: one bundle is placed on the first existing node with room for it,
\* or on the first node to launch with room left, or on a new node of the
\* first type of the catalog that can host it, or nowhere
Place(catalog, packed, bundle) ==
    LET existing == {i \in 1..Len(WorkerIds) :
                        /\ WorkerIds[i] \in DOMAIN packed.residual
                        /\ packed.residual[WorkerIds[i]] >= bundle}
        carried == {j \in 1..Len(packed.launched) :
                       packed.launched[j].residual >= bundle}
        hosts == {k \in 1..Len(NodeTypes) :
                     catalog.available_node_types[NodeTypes[k]].resources
                         >= bundle}
    IN  IF existing # {}
        THEN [packed EXCEPT
                 !.residual[WorkerIds[Least(existing)]] = @ - bundle]
        ELSE IF carried # {}
        THEN [packed EXCEPT
                 !.launched[Least(carried)].residual = @ - bundle]
        ELSE IF hosts # {}
        THEN LET t == NodeTypes[Least(hosts)]
             IN  [packed EXCEPT
                     !.launched =
                         Append(@, [node_type |-> t,
                                    residual |->
                                        catalog.available_node_types[t]
                                            .resources - bundle])]
        ELSE [packed EXCEPT !.unschedulable = Append(@, bundle)]

RECURSIVE Pack(_, _, _, _)
\* step 3: the bundles of the workload are placed from the i-th on
Pack(catalog, packed, workload, i) ==
    IF i > Len(workload) THEN packed
    ELSE Pack(catalog, Place(catalog, packed, workload[i]), workload, i + 1)

\* mutant: a node counts as idle as soon as the timeout is reached
IsIdleAtTimeout(catalog, node, now) ==
    now - node.last_used_time >= catalog.idle_timeout_minutes

\* step 5: the node was last used longer ago than the idle timeout
IsIdle(catalog, node, now) ==
    now - node.last_used_time > catalog.idle_timeout_minutes

\* step 5: removing one more node of type t does not drop the type below
\* min_workers
KeepsMinWorkers(catalog, nodes, to_terminate, t) ==
    Cardinality(NodesOfType(nodes, t) \ to_terminate) - 1
        >= MinWorkers(catalog, t)

RECURSIVE Evict(_, _, _, _, _, _)
\* step 5: the termination candidates among the nodes from the i-th id on;
\* a node the workload was placed on is no candidate
Evict(catalog, nodes, now, in_use, i, to_terminate) ==
    IF i > Len(WorkerIds) THEN to_terminate
    ELSE LET n == WorkerIds[i]
         IN  IF /\ n \in DOMAIN nodes
                /\ n \notin in_use
                /\ IsIdle(catalog, nodes[n], now)
                /\ KeepsMinWorkers(catalog, nodes, to_terminate,
                                   nodes[n].node_type)
             THEN Evict(catalog, nodes, now, in_use, i + 1,
                        to_terminate \cup {n})
             ELSE Evict(catalog, nodes, now, in_use, i + 1, to_terminate)

\* mutant: only min_workers is enforced
AtLeastMinWorkers(catalog, t, wanted) ==
    IF wanted < MinWorkers(catalog, t) THEN MinWorkers(catalog, t) ELSE wanted

\* step 4: min_workers <= target <= max_workers for the type
WithinTypeBounds(catalog, t, wanted) ==
    IF wanted < MinWorkers(catalog, t) THEN MinWorkers(catalog, t)
    ELSE IF wanted > MaxWorkers(catalog, t) THEN MaxWorkers(catalog, t)
    ELSE wanted

\* step 4: what the global max_workers leaves to the i-th type, once the
\* types before it have their targets and the types after it what they hold
\* or must hold at least
RoomUnderGlobalMax(catalog, floor, target, i) ==
    catalog.max_workers
        - SumTypes([t \in TypeNames |->
                       IF t \in DOMAIN target THEN target[t] ELSE 0], 1)
        - SumTypes(floor, i + 1)

RECURSIVE Targets(_, _, _, _, _)
\* step 4: the targets of the types from the i-th on, in catalog order
Targets(catalog, floor, wanted, i, target) ==
    IF i > Len(NodeTypes) THEN target
    ELSE LET t == NodeTypes[i]
             bounded == WithinTypeBounds(catalog, t, wanted[t])
             room == RoomUnderGlobalMax(catalog, floor, target, i)
         IN  Targets(catalog, floor, wanted, i + 1,
                     Put(target, t, IF bounded > room THEN room ELSE bounded))

\* step 5: the nodes the packing placed a bundle on
InUse(catalog, nodes, packed) ==
    {n \in DOMAIN nodes :
        packed.residual[n] <
            catalog.available_node_types[nodes[n].node_type].resources}

\* steps 3 and 4: how many nodes of each type to launch, given the packing
\* and the nodes to terminate
ToLaunch(catalog, nodes, packed, to_terminate) ==
    LET remaining == [t \in TypeNames |->
                         Cardinality(NodesOfType(nodes, t) \ to_terminate)]
        wanted == [t \in TypeNames |->
                      remaining[t] +
                      Cardinality({j \in 1..Len(packed.launched) :
                                      packed.launched[j].node_type = t})]
        floor == [t \in TypeNames |->
                     IF remaining[t] < MinWorkers(catalog, t)
                     THEN MinWorkers(catalog, t) ELSE remaining[t]]
        target == Targets(catalog, floor, wanted, 1, EmptyMap)
    IN  [t \in TypeNames |->
            IF target[t] > remaining[t] THEN target[t] - remaining[t] ELSE 0]

RECURSIVE LaunchNodes(_, _, _, _)
\* tick, step 6: the provider launches to_launch[t] nodes of every type t
LaunchNodes(nodes, to_launch, i, now) ==
    IF i > Len(NodeTypes) THEN nodes
    ELSE LET t == NodeTypes[i]
             free == {k \in 1..Len(WorkerIds) :
                         WorkerIds[k] \notin DOMAIN nodes}
         IN  IF to_launch[t] = 0 \/ free = {}
             THEN LaunchNodes(nodes, to_launch, i + 1, now)
             ELSE LaunchNodes(
                      Put(nodes, WorkerIds[Least(free)],
                          [node_type |-> t, last_used_time |-> now]),
                      [to_launch EXCEPT ![t] = @ - 1], i, now)

\* tick, steps 4 to 6: the scheduler packs the standing requests and the
\* pending demands, picks the nodes to terminate and counts the nodes to
\* launch; the ones are terminated and the others launched
ControllerTick ==
    /\ \E requests \in ListsOf(CpuAmounts, 1),
          demands \in ListsOf(CpuAmounts, MaxDemands) :
        \E packed \in {Pack(node_type_catalog,
                            NothingPlaced(node_type_catalog, cluster_nodes),
                            SortedByScore(requests \o demands), 1)} :
        \E to_terminate \in
               {Evict(node_type_catalog, cluster_nodes, clock,
                      InUse(node_type_catalog, cluster_nodes, packed),
                      1, {})} :
        \E to_launch \in {ToLaunch(node_type_catalog, cluster_nodes, packed,
                                   to_terminate)} :
            /\ cluster_nodes' =
                   LaunchNodes([n \in DOMAIN cluster_nodes \ to_terminate |->
                                   cluster_nodes[n]],
                               to_launch, 1, clock)
            /\ scaling' = [decided |-> TRUE, now |-> clock,
                           nodes |-> cluster_nodes, to_launch |-> to_launch,
                           to_terminate |-> to_terminate]
    /\ UNCHANGED <<metricsVars, updaterVars, configVars, fleetVars,
                   writerVars, haproxyVars, node_type_catalog, clock>>

\* a minute passes
ClockTick ==
    /\ clock < MaxClock
    /\ clock' = clock + 1
    /\ UNCHANGED <<metricsVars, updaterVars, configVars, fleetVars,
                   writerVars, haproxyVars, node_type_catalog, cluster_nodes, scaling>>

\* a node reports that its resources are in use: its last used time is now
NodeUsed ==
    /\ \E n \in DOMAIN cluster_nodes :
        /\ cluster_nodes[n].last_used_time < clock
        /\ cluster_nodes' =
               [cluster_nodes EXCEPT ![n].last_used_time = clock]
    /\ UNCHANGED <<metricsVars, updaterVars, configVars, fleetVars,
                   writerVars, haproxyVars, node_type_catalog, clock, scaling>>

\* no tick was made
NoDecision ==
    [decided |-> FALSE, now |-> 0, nodes |-> EmptyMap,
     to_launch |-> [t \in TypeNames |-> 0], to_terminate |-> {}]

\* a controller that starts on a cluster without workers
InitScheduler ==
    /\ node_type_catalog \in Catalogs
    /\ clock = 0
    /\ cluster_nodes = EmptyMap
    /\ scaling = NoDecision

\* no controller
NoScheduler ==
    /\ node_type_catalog = EmptyMap
    /\ clock = 0
    /\ cluster_nodes = EmptyMap
    /\ scaling = NoDecision

----------------------------------------------------------------------------
(* HAProxy: _update_backend and the server slots of a backend *)

\* the servers service discovery reports: a host and a port
Hosts == {"h1", "h2", "h3"}
BackendServers == {<<host, "80">> : host \in Hosts}

\* the lists of servers a call can be given: the callers pass on what service
\* discovery returned and remove no duplicates
ServerLists == ListsOf(BackendServers, MaxServers)

get_backend_server_address(backend_server) ==
    backend_server[1] \o ":" \o backend_server[2]

get_default_server_name(server_id) == <<"server", server_id>>
ServerId(server_name) == server_name[2]

\* the address of a slot no server was enabled in
NoAddress == "0.0.0.0:0"

\* a slot as the configuration creates it
FreeSlot == [address |-> NoAddress, active |-> FALSE]

\* the server names in the order HAProxy lists them
RECURSIVE SlotOrder(_)
SlotOrder(names) ==
    IF names = {} THEN <<>>
    ELSE LET first == CHOOSE n \in names :
                          \A m \in names : ServerId(n) <= ServerId(m)
         IN  <<first>> \o SlotOrder(names \ {first})

\* a Python dict, as the list of its items in insertion order
DictHas(d, key) == \E i \in 1..Len(d) : d[i][1] = key
DictDel(d, key) == SelectSeq(d, LAMBDA item : item[1] # key)
DictSet(d, key, value) ==
    IF DictHas(d, key)
    THEN [i \in 1..Len(d) |-> IF d[i][1] = key THEN <<key, value>> ELSE d[i]]
    ELSE Append(d, <<key, value>>)

\* the dict of the enabled slots, server name by address
RECURSIVE ActiveServers(_, _)
ActiveServers(slots, order) ==
    IF order = <<>> THEN <<>>
    ELSE LET server_name == order[Len(order)]
             listed == ActiveServers(slots, SubSeq(order, 1, Len(order) - 1))
         IN  IF slots[server_name].active
             THEN DictSet(listed, slots[server_name].address, server_name)
             ELSE listed

\* list_backend_servers: the dict of the enabled slots and the list of the
\* names of the others
list_backend_servers(slots) ==
    [active_servers |-> ActiveServers(slots, SlotOrder(DOMAIN slots)),
     inactive_servers |->
         SelectSeq(SlotOrder(DOMAIN slots),
                   LAMBDA server_name : ~slots[server_name].active)]

\* the calls of the admin API act on the slots of the reconciliation state st
\* and are recorded in st.calls
enable_backend_slot(st, server_name, backend_server) ==
    [st EXCEPT
        !.slots = [@ EXCEPT ![server_name] =
                      [address |-> get_backend_server_address(backend_server),
                       active |-> TRUE]],
        !.calls = @ \cup {<<"enable", server_name>>}]

disable_backend_slot(st, server_name) ==
    [st EXCEPT !.slots = [@ EXCEPT ![server_name].active = FALSE],
               !.calls = @ \cup {<<"disable", server_name>>}]

\* HAProxy has a slot of the name already: it either refuses the new one or
\* takes its address
add_backend_slot(st, server_name, backend_server, on_existing) ==
    [st EXCEPT
        !.slots =
            IF server_name \in DOMAIN st.slots /\ on_existing = "refused"
            THEN @
            ELSE Put(@, server_name,
                     [address |-> get_backend_server_address(backend_server),
                      active |-> TRUE]),
        !.calls = @ \cup {<<"add", server_name>>}]

delete_backend_slot(st, server_name) ==
    [st EXCEPT
        !.slots = [n \in DOMAIN @ \ {server_name} |-> @[n]],
        !.calls = @ \cup {<<"delete", server_name>>}]

\* _update_backend, lines 34-47: a server that is enabled already is taken
\* off the dict, any other is enabled in the first free slot or is missing
RECURSIVE EnableServers(_, _)
EnableServers(st, backend_servers) ==
    IF backend_servers = <<>> THEN st
    ELSE
    LET backend_server == Head(backend_servers)
        server_address == get_backend_server_address(backend_server)
        next ==
            IF DictHas(st.active_servers, server_address)
            THEN [st EXCEPT !.active_servers = DictDel(@, server_address)]
            ELSE IF Len(st.inactive_servers) > 0
            THEN [enable_backend_slot(st, Head(st.inactive_servers),
                                      backend_server)
                     EXCEPT !.inactive_servers = Tail(@)]
            ELSE [st EXCEPT !.missing_backend_servers =
                                Append(@, backend_server)]
    IN  EnableServers(next, Tail(backend_servers))

\* _update_backend, lines 50-59: what is left in the dict is disabled, and
\* enabled again for a missing server if there is one
RECURSIVE DisableRemaining(_, _)
DisableRemaining(st, remaining) ==
    IF remaining = <<>> THEN st
    ELSE
    LET server_name == Head(remaining)[2]
        disabled == disable_backend_slot(st, server_name)
        next ==
            IF disabled.missing_backend_servers # <<>>
            THEN [enable_backend_slot(disabled, server_name,
                      Head(disabled.missing_backend_servers))
                     EXCEPT !.missing_backend_servers = Tail(@)]
            ELSE disabled
    IN  DisableRemaining(next, Tail(remaining))

\* _update_backend, lines 61-70: a new slot for every server still missing
RECURSIVE AddSlots(_, _, _, _)
AddSlots(st, server_id, missing_backend_servers, on_existing) ==
    IF missing_backend_servers = <<>> THEN st
    ELSE AddSlots(add_backend_slot(st, get_default_server_name(server_id),
                                   Head(missing_backend_servers),
                                   on_existing),
                  server_id + 1, Tail(missing_backend_servers), on_existing)

\* _update_backend, lines 75-84: the free slots of the last server ids are
\* deleted, down to the first one that is not free
RECURSIVE DeleteLastSlots(_, _, _)
DeleteLastSlots(st, server_id, stop) ==
    IF server_id <= stop THEN st
    ELSE IF \E i \in 1..Len(st.inactive_servers) :
                st.inactive_servers[i] = get_default_server_name(server_id)
    THEN DeleteLastSlots(
             delete_backend_slot(st, get_default_server_name(server_id)),
             server_id - 1, stop)
    ELSE st

\* _update_backend, lines 26-84, for the one HAProxy server: the slots after
\* it and the calls it made
_update_backend(slots, backend_servers, on_existing) ==
    LET listed == list_backend_servers(slots)
        total_server_slots ==
            Len(listed.active_servers) + Len(listed.inactive_servers)
        enabled == EnableServers(
            [slots |-> slots, calls |-> {},
             active_servers |-> listed.active_servers,
             inactive_servers |-> listed.inactive_servers,
             missing_backend_servers |-> <<>>], backend_servers)
        disabled == DisableRemaining(enabled, enabled.active_servers)
        num_deletes == Len(disabled.inactive_servers) - free_slots
    IN  IF disabled.missing_backend_servers # <<>>
        THEN AddSlots(disabled, total_server_slots + 1,
                      disabled.missing_backend_servers, on_existing)
        ELSE IF num_deletes > 0
        THEN DeleteLastSlots(disabled, total_server_slots,
                             total_server_slots - num_deletes)
        ELSE disabled

NoUpdate == [op |-> "none"]

\* a pull of the discovery job calls _update_backend with what it found
UpdateBackend ==
    /\ \E backend_servers \in ServerLists,
          on_existing \in {"refused", "replaced"} :
        \E st \in {_update_backend(backend_slots, backend_servers,
                                   on_existing)} :
            /\ backend_slots' = st.slots
            /\ backend_update' =
                   [op |-> "_update_backend",
                    backend_servers |-> backend_servers,
                    before |-> backend_slots, calls |-> st.calls]
    /\ UNCHANGED <<free_slots, metricsVars, updaterVars, configVars,
                   fleetVars, writerVars, schedulerVars>>

\* the backend as its configuration creates it: some free slots, none enabled
InitHAProxy ==
    /\ \E n \in 0..MaxSlots :
           backend_slots =
               [server_name \in {get_default_server_name(server_id) :
                                    server_id \in 1..n} |-> FreeSlot]
    /\ free_slots \in 0..1
    /\ backend_update = NoUpdate

\* no HAProxy
NoHAProxy ==
    /\ backend_slots = EmptyMap
    /\ free_slots = 0
    /\ backend_update = NoUpdate

----------------------------------------------------------------------------
(* Specifications *)

NoCall == [op |-> "none"]

\* the caller takes the return value of its call; the next call can be made
Return ==
    /\ ~Idle
    /\ call' = NoCall
    /\ UNCHANGED <<requestVars, ipVars, updaterVars, restVars, configVars>>

InitMetrics ==
    /\ last_demanding_time = 0
    /\ resource_demands = <<>>
    /\ last_requesting_time = 0
    /\ resource_requests = <<>>
    /\ node_id_by_ip = EmptyMap
    /\ last_heartbeat_time_by_ip = EmptyMap
    /\ last_used_time_by_ip = EmptyMap
    /\ last_resource_time_by_ip = EmptyMap
    /\ static_resources_by_ip = EmptyMap
    /\ dynamic_resources_by_ip = EmptyMap
    /\ resource_load_by_ip = EmptyMap
    /\ removed_log = {}
    /\ timestamps_in_order = TRUE
    /\ call = NoCall

\* a ClusterMetrics object
\* the subsystems a specification does not run stay as constructed
InitRest == NoFleet /\ NoWriter /\ NoScheduler /\ NoHAProxy

Init == InitMetrics /\ NoUpdater /\ InitConfig /\ InitRest

\* set_resource_requests alone
NextRequests == SetResourceRequests \/ Return
SpecRequests == Init /\ [][NextRequests]_vars

\* set_resource_requests and update_autoscaling_instructions
NextInstructions ==
    SetResourceRequests \/ UpdateAutoscalingInstructions \/ Return
SpecInstructions == Init /\ [][NextInstructions]_vars

\* the per-IP maps
NextMetrics ==
    \/ UpdateHeartbeat
    \/ UpdateNodeResources
    \/ MarkActive
    \/ PruneActiveIps
    \/ Return
SpecMetrics == Init /\ [][NextMetrics]_vars

\* one NodeUpdater run on one node
InitRun == InitMetrics /\ InitUpdater /\ InitConfig /\ InitRest
NextUpdater ==
    \/ RunStart
    \/ SetWaitingForSsh
    \/ WaitReadyTimeout
    \/ WaitReadyTerminated
    \/ WaitReadySuccess
    \/ WaitReadyRetry
    \/ ReadNodeTags
    \/ RunInitCheck
    \/ CheckRestartOnly
    \/ SetBootstrappingDataDisks
    \/ BootstrapDataDisks
    \/ SetSyncingFiles
    \/ SyncFileMounts
    \/ SetSettingUp
    \/ ExecInitializationCommand
    \/ RunInitSync
    \/ ExecSetupCommand
    \/ ExecStartCommand
    \/ RunExcept
    \/ RunSuccess
    \/ NodeTerminated
    \/ RetryIntervalPasses
SpecUpdater == InitRun /\ [][NextUpdater]_vars

\* the steps of the Updater's own thread, which runs on until run ends; when
\* the provider terminates the node is not the Updater's to decide
UpdaterStep ==
    \/ RunStart
    \/ SetWaitingForSsh
    \/ WaitReadyTimeout
    \/ WaitReadyTerminated
    \/ WaitReadySuccess
    \/ WaitReadyRetry
    \/ ReadNodeTags
    \/ RunInitCheck
    \/ CheckRestartOnly
    \/ SetBootstrappingDataDisks
    \/ BootstrapDataDisks
    \/ SetSyncingFiles
    \/ SyncFileMounts
    \/ SetSettingUp
    \/ ExecInitializationCommand
    \/ RunInitSync
    \/ ExecSetupCommand
    \/ ExecStartCommand
    \/ RunExcept
    \/ RunSuccess

\* one run that enters do_update, its thread scheduled until run ends; how
\* the output is shown and an empty file mounts hash play no part in
\* wait_ready
InitFlap ==
    /\ InitRun
    /\ ~allow_interactive
    /\ ~output_redirected
    /\ file_mounts_contents_hash # ""
SpecFlap == InitFlap /\ [][NextUpdater]_vars /\ WF_vars(UpdaterStep)

\* one run with all its command lists filled
InitCommandRun == InitMetrics /\ InitCommands /\ InitConfig /\ InitRest
SpecCommands == InitCommandRun /\ [][NextUpdater]_vars

\* one run with several commands in every list
InitOrderedRun == InitMetrics /\ InitOrdered /\ InitConfig /\ InitRest
SpecOrdered == InitOrderedRun /\ [][NextUpdater]_vars

\* the Updater threads of all nodes, interleaved in every way
InitFleetRun ==
    /\ InitMetrics /\ NoUpdater /\ InitConfig
    /\ InitFleet /\ NoWriter /\ NoScheduler /\ NoHAProxy
NextFleet == \E u \in Nodes : FleetStep(u)
SpecFleet == InitFleetRun /\ [][NextFleet]_vars

\* the controller's scaling loop
InitSchedulerRun ==
    /\ InitMetrics /\ NoUpdater /\ InitConfig
    /\ NoFleet /\ NoWriter /\ InitScheduler /\ NoHAProxy
NextScheduler == ControllerTick \/ ClockTick \/ NodeUsed
SpecScheduler == InitSchedulerRun /\ [][NextScheduler]_vars

\* the discovery job reconciles the slots of one backend, pull after pull
InitHAProxyRun ==
    /\ InitMetrics /\ NoUpdater /\ InitConfig
    /\ NoFleet /\ NoWriter /\ NoScheduler /\ InitHAProxy
NextHAProxy == UpdateBackend
SpecHAProxy == InitHAProxyRun /\ [][NextHAProxy]_vars

\* _bootstrap_config over a cache directory that other things touch as well
NextConfig ==
    \/ BootstrapConfig
    \/ CacheFileDamaged
    \/ CacheFileRemoved
    \/ ProcessRestarted
    \/ Return
SpecConfig == Init /\ [][NextConfig]_vars

\* two _bootstrap_config calls at once, on a cache nothing else touches
NextConcurrent ==
    \/ BootstrapConfig
    \/ ConcurrentWriterOpens
    \/ ConcurrentWriterWrites
    \/ Return
SpecConcurrent == Init /\ [][NextConcurrent]_vars

----------------------------------------------------------------------------
(* Properties of NodeUpdater *)

\* the node-status values this run wrote, in order
StatusesWritten ==
    LET writes == SelectSeq(tag_writes,
                      LAMBDA w : CLOUDTIK_TAG_NODE_STATUS \in DOMAIN w)
    IN [i \in 1..Len(writes) |-> writes[i][CLOUDTIK_TAG_NODE_STATUS]]

\* the place of a status in the canonical order; the two final ones share the
\* last place
Rank(status) ==
    CASE status = STATUS_WAITING_FOR_SSH -> 1
      [] status = STATUS_BOOTSTRAPPING_DATA_DISKS -> 2
      [] status = STATUS_SYNCING_FILES -> 3
      [] status = STATUS_SETTING_UP -> 4
      [] status \in {STATUS_UP_TO_DATE, STATUS_UPDATE_FAILED} -> 5
      [] OTHER -> 0

\* run has ended after entering do_update
Finished == pc \in {"done", "returned", "raised"}

\* C1: the statuses one run writes are a subsequence of waiting-for-ssh,
\* bootstrapping-data-disks, syncing-files, setting-up, followed by exactly
\* one of up-to-date and update-failed: each status written comes later in
\* the order than every status written before it, a final status is written
\* at most once, and a run that has ended has written one, last.
C1_StatusOrder ==
    LET st == StatusesWritten
    IN /\ \A i \in 1..Len(st) : Rank(st[i]) > 0
       /\ \A i \in 1..Len(st) : \A j \in 1..Len(st) :
              i < j => Rank(st[i]) < Rank(st[j])
       /\ Finished => /\ Len(st) > 0
                      /\ Rank(st[Len(st)]) = 5

\* a run on a node whose hash matched, whose container had to be set up
\* again, goes through all five places of the order
C1_Witness ==
    /\ pc = "done"
    /\ init_required = "true"
    /\ StatusesWritten = <<STATUS_WAITING_FOR_SSH,
                           STATUS_BOOTSTRAPPING_DATA_DISKS,
                           STATUS_SYNCING_FILES, STATUS_SETTING_UP,
                           STATUS_UP_TO_DATE>>

\* C2: when an exception leaves do_update, up-to-date is not written by the
\* run, and once run's except clause is through, the last status written is
\* update-failed.
C2_FailureMarksFailed ==
    LET st == StatusesWritten
    IN /\ exc # NoException =>
              \A i \in 1..Len(st) : st[i] # STATUS_UP_TO_DATE
       /\ pc \in {"returned", "raised"} =>
              /\ exc # NoException
              /\ Len(st) > 0
              /\ st[Len(st)] = STATUS_UPDATE_FAILED

\* a start command fails after the whole setup went through
C2_Witness ==
    /\ pc = "returned"
    /\ hasattr(failed, "returncode")
    /\ failed.cmd \in Range(start_commands)
    /\ STATUS_SETTING_UP \in Range(StatusesWritten)

\* the other reasons of failure are reached as well
C2_TimeoutReached ==
    /\ pc = "raised"
    /\ exc.message = "Waiting for node ready timeout."
C2_TerminatedReached ==
    /\ pc = "raised"
    /\ exc.message = "node detected as terminated."
C2_SyncFailureReached ==
    /\ pc = "raised"
    /\ executed # <<>>
    /\ executed[Len(executed)] = "rsync"

\* C3: when a setup command has failed, the exception that left do_update and
\* is handled in run has the attributes cmd and returncode, and they are the
\* failing command and its exit code.
C3_SetupFailureCarriesCommand ==
    (/\ pc \in {"except", "returned", "raised"}
     /\ hasattr(failed, "returncode")
     /\ failed.cmd \in Range(setup_commands))
    => /\ hasattr(exc, "cmd")
       /\ exc.cmd = failed.cmd
       /\ exc.returncode = failed.returncode

\* a setup command failed and run's except clause handled the exception
C3_Witness ==
    /\ pc = "returned"
    /\ hasattr(failed, "returncode")
    /\ failed.cmd \in Range(setup_commands)
    /\ reported = [message |-> "Setup command failed."]

\* C4: every set_node_tags call of the run that writes up-to-date is the last
\* one and writes the runtime hash, and the file mounts hash when there is
\* one, in the same call; so once the run has written a tag, the provider
\* never shows up-to-date next to another runtime hash or file mounts hash.
C4_UpToDateWithHash ==
    /\ \A i \in 1..Len(tag_writes) :
           Get(tag_writes[i], CLOUDTIK_TAG_NODE_STATUS) = STATUS_UP_TO_DATE =>
               /\ i = Len(tag_writes)
               /\ Get(tag_writes[i], CLOUDTIK_TAG_RUNTIME_CONFIG) = runtime_hash
               /\ file_mounts_contents_hash # None =>
                      Get(tag_writes[i], CLOUDTIK_TAG_FILE_MOUNTS_CONTENTS) =
                          file_mounts_contents_hash
    /\ (/\ tag_writes # <<>>
        /\ Get(provider_tags, CLOUDTIK_TAG_NODE_STATUS) = STATUS_UP_TO_DATE)
       => /\ Get(provider_tags, CLOUDTIK_TAG_RUNTIME_CONFIG) = runtime_hash
          /\ file_mounts_contents_hash # None =>
                 Get(provider_tags, CLOUDTIK_TAG_FILE_MOUNTS_CONTENTS) =
                     file_mounts_contents_hash

\* a run that succeeded on a node that carried another runtime hash and no
\* file mounts hash
C4_Witness ==
    /\ pc = "done"
    /\ file_mounts_contents_hash = "f1"
    /\ Get(node_tags, CLOUDTIK_TAG_RUNTIME_CONFIG) = "h0"
    /\ Get(node_tags, CLOUDTIK_TAG_FILE_MOUNTS_CONTENTS) = None
    /\ Get(provider_tags, CLOUDTIK_TAG_NODE_STATUS) = STATUS_UP_TO_DATE

\* the case of the skip: the runtime hash matched and run_init answered that
\* no setup is required, and there is no file mounts hash or it matched
SkipCase ==
    /\ init_required = "false"
    /\ \/ file_mounts_contents_hash = None
       \/ Get(node_tags, CLOUDTIK_TAG_FILE_MOUNTS_CONTENTS) =
              file_mounts_contents_hash

\* C5: in the case of the skip the run writes none of the statuses
\* bootstrapping-data-disks, syncing-files and setting-up, and the executor
\* runs nothing but the uptime probe, the one run_init that answered, and
\* start commands; a run that succeeds wrote waiting-for-ssh and up-to-date.
C5_SkipLogic ==
    SkipCase =>
        /\ \A i \in 1..Len(StatusesWritten) :
               StatusesWritten[i] \notin {STATUS_BOOTSTRAPPING_DATA_DISKS,
                                          STATUS_SYNCING_FILES,
                                          STATUS_SETTING_UP}
        /\ \A i \in 1..Len(executed) :
               \/ executed[i] = "uptime" /\ i = 1
               \/ executed[i] = "run_init" /\ i = 2
               \/ executed[i] \in Range(start_commands) /\ i > 2
        /\ pc = "done" =>
               /\ StatusesWritten = <<STATUS_WAITING_FOR_SSH, STATUS_UP_TO_DATE>>
               /\ Len(executed) = 2 + Len(start_commands)

\* a skipping run that succeeded, with initialization and setup commands
\* configured and a start command run
C5_Witness ==
    /\ SkipCase
    /\ pc = "done"
    /\ file_mounts_contents_hash = "f1"
    /\ initialization_commands # <<>>
    /\ setup_commands # <<>>
    /\ executed = <<"uptime", "run_init">> \o start_commands
    /\ start_commands # <<>>

\* wait_ready has returned: its uptime probe went through
WaitReadyReturned == executed # <<>> /\ executed[1] = "uptime"

\* the failed probes of wait_ready, each followed by one sleep of
\* READY_CHECK_INTERVAL seconds
FailedProbes == wait_elapsed \div READY_CHECK_INTERVAL

\* the last node-status written comes after waiting-for-ssh
StatusPastWaitingForSsh ==
    LET st == StatusesWritten
    IN Len(st) > 0 /\ Rank(st[Len(st)]) > 1

\* C19: when the uptime probe fails k times and then succeeds before the
\* deadline on a node that is not terminated, wait_ready returns with k at
\* most deadline/interval, and the node-status then advances past
\* waiting-for-ssh.
C19_SshFlapAdvances ==
    /\ [](WaitReadyReturned =>
              /\ wait_elapsed <= MaxWait
              /\ FailedProbes <= MaxWait \div READY_CHECK_INTERVAL)
    /\ (WaitReadyReturned ~> StatusPastWaitingForSsh)

\* the probe failed on every attempt but the last one the deadline allows,
\* and the run went on to write a later status
C19_Witness ==
    /\ WaitReadyReturned
    /\ FailedProbes = MaxWait \div READY_CHECK_INTERVAL
    /\ FailedProbes > 0
    /\ StatusPastWaitingForSsh

\* the run ended in run's except clause without a probe that went through,
\* and update-failed is the last node-status it wrote
UnreachableHostFailed ==
    /\ ~WaitReadyReturned
    /\ pc = "raised"
    /\ StatusesWritten # <<>>
    /\ StatusesWritten[Len(StatusesWritten)] = STATUS_UPDATE_FAILED

\* C31: a host that is never reached fails in the end. If the uptime probe
\* never succeeds, wait_ready raises (deadline passed or node terminated)
\* and the run ends with node-status update-failed; while wait_ready waits,
\* the time it has waited is at most one retry interval past the deadline.
C31_UnreachableHostFails ==
    /\ [](pc = "wait_ready" => wait_elapsed <= MaxWait + READY_CHECK_INTERVAL)
    /\ ([]~WaitReadyReturned => <>UnreachableHostFailed)

\* every probe failed until the deadline passed, the node being there all
\* the while, and the run ended with update-failed
C31_Witness ==
    /\ UnreachableHostFailed
    /\ ~terminated
    /\ wait_elapsed > MaxWait
    /\ exc.message = "Waiting for node ready timeout."

\* the commands of the three lists, in the order of a full setup
ListCommands == initialization_commands \o setup_commands \o start_commands

\* the places of executed where command c was run
PlacesOf(c) == {i \in 1..Len(executed) : executed[i] = c}

\* the run went into a full setup: it wrote the status setting-up
FullSetup == STATUS_SETTING_UP \in Range(StatusesWritten)

\* run_init was called before place j, after every initialization command
\* that was run
SyncedBefore(j) ==
    \E k \in 1..(j - 1) :
        /\ executed[k] = "run_init"
        /\ \A c \in Range(initialization_commands) :
               \A p \in PlacesOf(c) : p < k

\* C35: the order of the commands. No command of the lists is started twice
\* and nothing is run after a command that failed. In a full setup a
\* command is run only after every command before it in initialization
\* commands, setup commands, start commands (each in its declaration order)
\* was run and did not fail, with run_init(sync_run_yet=True) between the
\* last initialization command and whatever comes next. Without a full
\* setup only start commands run, in their order.
C35_CommandOrder ==
    /\ \A c \in Range(ListCommands) : Cardinality(PlacesOf(c)) <= 1
    /\ hasattr(failed, "returncode") =>
           executed[Len(executed)] = failed.cmd
    /\ \A j \in 1..Len(ListCommands) :
           PlacesOf(ListCommands[j]) # {} =>
               LET at == CHOOSE p \in PlacesOf(ListCommands[j]) : TRUE
               IN  IF FullSetup
                   THEN /\ \A i \in 1..(j - 1) :
                              /\ \E p \in PlacesOf(ListCommands[i]) : p < at
                              /\ failed.cmd # ListCommands[i]
                        /\ j > Len(initialization_commands) =>
                               SyncedBefore(at)
                   ELSE /\ ListCommands[j] \in Range(start_commands)
                        /\ \A i \in 1..(j - 1) :
                               ListCommands[i] \in Range(start_commands) =>
                                   /\ \E p \in PlacesOf(ListCommands[i]) :
                                          p < at
                                   /\ failed.cmd # ListCommands[i]

\* a full setup ran every command of the three lists, two at least in each,
\* and ended well
C35_Witness ==
    /\ pc = "done"
    /\ FullSetup
    /\ Len(setup_commands) > 1
    /\ \A c \in Range(ListCommands) : PlacesOf(c) # {}

\* a setup command failed after the initialization commands went through;
\* no start command was run
C35_StoppedAtSetup ==
    /\ hasattr(failed, "returncode")
    /\ Len(setup_commands) > 1
    /\ failed.cmd = setup_commands[2]
    /\ \A c \in Range(start_commands) : PlacesOf(c) = {}

\* C36: _exec_start_command leaves the output-redirected flag of the call
\* context as it found it, whether the start command returns or fails: no step
\* of the start commands changes the flag.
C36_StartCommandKeepsRedirect ==
    [][pc = "start_commands" => output_redirected' = output_redirected]_vars

\* a start command is about to run while the output is redirected
C36_Witness ==
    /\ pc = "start_commands"
    /\ cmd_index <= Len(start_commands)
    /\ output_redirected
    /\ ~allow_interactive

\* C20: once the provider has reported the node terminated for more than one
\* retry interval, the Updater starts no further command on the node, in
\* whatever phase it is.
C20_NoCommandAfterTermination ==
    [][terminated_elapsed > READY_CHECK_INTERVAL => executed' = executed]_vars

\* the node has been terminated for more than one retry interval and the run
\* is about to execute its start commands
C20_Witness ==
    /\ terminated_elapsed > READY_CHECK_INTERVAL
    /\ pc = "start_commands"
    /\ cmd_index <= Len(start_commands)

\* the number_of_retries the claim gives a command list: the configured
\* number, or the default of the list
RetryBound(default) ==
    IF "number_of_retries" \in DOMAIN updater_config
    THEN updater_config["number_of_retries"]
    ELSE default

\* the last node-status this run wrote
LastStatus == StatusesWritten[Len(StatusesWritten)]

\* C22: a command that fails on every attempt is retried at most
\* number_of_retries times (30 for initialization, 5 for setup and 3 for start
\* commands unless the config sets the number); once it has failed for good no
\* further command runs and the run ends in update-failed.
C22_RetryBounds ==
    /\ [](/\ pc = "initialization_commands" => attempts <= RetryBound(30)
          /\ pc = "setup_commands" => attempts <= RetryBound(5)
          /\ pc = "start_commands" => attempts <= RetryBound(3)
          /\ hasattr(failed, "returncode") =>
                 /\ failed.cmd \in Range(initialization_commands) =>
                        attempts <= RetryBound(30)
                 /\ failed.cmd \in Range(setup_commands) =>
                        attempts <= RetryBound(5)
                 /\ failed.cmd \in Range(start_commands) =>
                        attempts <= RetryBound(3)
                 /\ Finished => LastStatus = STATUS_UPDATE_FAILED)
    /\ [][hasattr(failed, "returncode") => executed' = executed]_vars

\* a setup command failed on its first attempt and on each of the five
\* retries of the default, and the run ended in update-failed
C22_Witness ==
    /\ pc = "returned"
    /\ "number_of_retries" \notin DOMAIN updater_config
    /\ hasattr(failed, "returncode")
    /\ failed.cmd \in Range(setup_commands)
    /\ attempts = 5
    /\ LastStatus = STATUS_UPDATE_FAILED

\* C23: the quorum-join tag is written only in the tag write of a final
\* status and only when the node carries one: as success together with
\* up-to-date, as failed together with update-failed.
C23_QuorumJoinOutcome ==
    [][tag_writes' # tag_writes =>
          LET w == tag_writes'[Len(tag_writes')]
              status == Get(w, CLOUDTIK_TAG_NODE_STATUS)
          IN /\ CLOUDTIK_TAG_QUORUM_JOIN \in DOMAIN w <=>
                    /\ CLOUDTIK_TAG_QUORUM_JOIN \in DOMAIN provider_tags
                    /\ status \in {STATUS_UP_TO_DATE, STATUS_UPDATE_FAILED}
             /\ CLOUDTIK_TAG_QUORUM_JOIN \in DOMAIN w =>
                    w[CLOUDTIK_TAG_QUORUM_JOIN] =
                        IF status = STATUS_UP_TO_DATE
                        THEN QUORUM_JOIN_STATUS_SUCCESS
                        ELSE QUORUM_JOIN_STATUS_FAILED]_vars

\* a node that carried a quorum-join tag ends up to date with the tag at
\* success
C23_Witness ==
    /\ pc = "done"
    /\ Get(provider_tags, CLOUDTIK_TAG_QUORUM_JOIN) = QUORUM_JOIN_STATUS_SUCCESS
    /\ Get(tag_writes[Len(tag_writes)], CLOUDTIK_TAG_QUORUM_JOIN) =
           QUORUM_JOIN_STATUS_SUCCESS

\* a node that carried a quorum-join tag ends failed with the tag at failed,
\* and a node that carried none ends without one
C23_FailedReached ==
    /\ Finished
    /\ Get(provider_tags, CLOUDTIK_TAG_QUORUM_JOIN) = QUORUM_JOIN_STATUS_FAILED
C23_NoTagReached ==
    /\ Finished
    /\ CLOUDTIK_TAG_QUORUM_JOIN \notin DOMAIN provider_tags

\* a start command has been the last thing run on a node that has a resource
\* override and whose provider is not onpremise
StartCommandRunWithOverride ==
    /\ executed # <<>>
    /\ executed[Len(executed)] \in Range(start_commands)
    /\ node_resources # None
    /\ updater_provider_type # "onpremise"

\* C24: every start command of a node that has a node_resources override
\* (provider type not onpremise) is run with the resource bundle in
\* CLOUDTIK_RESOURCES, with start-command retry enabled or disabled.
C24_StartCommandsGetResources ==
    StartCommandRunWithOverride =>
        Get(command_env, CLOUDTIK_RESOURCES_ENV) = node_resources

\* with retry enabled, the default, a start command ran without
\* CLOUDTIK_RESOURCES
C24_Witness ==
    /\ StartCommandRunWithOverride
    /\ "retry_start_command" \notin DOMAIN updater_config
    /\ CLOUDTIK_RESOURCES_ENV \notin DOMAIN command_env

\* with retry disabled the start command is given the bundle
C24_NoRetryPassesResources ==
    /\ StartCommandRunWithOverride
    /\ "retry_start_command" \in DOMAIN updater_config
    /\ Get(command_env, CLOUDTIK_RESOURCES_ENV) = node_resources

\* C28: the tag of a state is written before the work of the state begins:
\* waiting-for-ssh is the last status written when wait_ready probes with
\* uptime, bootstrapping-data-disks when bootstrap_data_disks is invoked,
\* syncing-files at the mkdir and rsync of the file mounts, and setting-up at
\* every initialization command, at run_init(sync_run_yet=true) and at every
\* setup command.
C28_TagBeforeWork ==
    /\ [](pc = "wait_ready" =>
              /\ StatusesWritten # <<>>
              /\ LastStatus = STATUS_WAITING_FOR_SSH)
    /\ [][executed' # executed =>
             LET cmd == executed'[Len(executed) + 1]
             IN /\ StatusesWritten # <<>>
                /\ cmd = "uptime" => LastStatus = STATUS_WAITING_FOR_SSH
                /\ cmd = "bootstrap_data_disks" =>
                       LastStatus = STATUS_BOOTSTRAPPING_DATA_DISKS
                /\ cmd \in {"mkdir", "rsync"} =>
                       LastStatus = STATUS_SYNCING_FILES
                /\ (\/ pc \in {"initialization_commands", "run_init_sync",
                               "setup_commands"}
                    \/ cmd \in Range(initialization_commands)
                    \/ cmd \in Range(setup_commands)) =>
                       LastStatus = STATUS_SETTING_UP]_vars

\* a run went through every state and did the work of each
C28_Witness ==
    /\ pc = "done"
    /\ {"uptime", "bootstrap_data_disks", "mkdir", "rsync", "run_init"}
           \subseteq Range(executed)
    /\ initialization_commands # <<>>
    /\ Range(initialization_commands) \subseteq Range(executed)
    /\ setup_commands # <<>>
    /\ Range(setup_commands) \subseteq Range(executed)

\* C29: when the runtime-config tag equals runtime_hash and
\* run_init(sync_run_yet=false) returns init_required, the Updater does the
\* full setup, also when it was constructed with restart_only: it writes all
\* five statuses and runs the data-disk bootstrap, the file sync, the
\* initialization commands, run_init, the setup commands it was given and the
\* start commands.
C29_InitRequiredForcesFullSetup ==
    /\ [](init_required = "true" =>
              /\ ~restart_only
              /\ pc = "done" =>
                     /\ StatusesWritten =
                            <<STATUS_WAITING_FOR_SSH,
                              STATUS_BOOTSTRAPPING_DATA_DISKS,
                              STATUS_SYNCING_FILES, STATUS_SETTING_UP,
                              STATUS_UP_TO_DATE>>
                     /\ executed =
                            <<"uptime", "run_init", "bootstrap_data_disks",
                              "mkdir", "rsync">>
                            \o initialization_commands \o <<"run_init">>
                            \o setup_commands \o start_commands)
    /\ [][init_required' = "true" => setup_commands' = setup_commands]_vars

\* an Updater constructed with restart_only ran the setup commands it was
\* given because run_init asked for it
C29_Witness ==
    /\ pc = "done"
    /\ init_required = "true"
    /\ restart_only_arg
    /\ setup_commands # <<>>
    /\ setup_commands[1] \in Range(executed)

SkipDecided ==
    pc \in {"bootstrapping_data_disks", "bootstrap_data_disks",
            "syncing_files", "sync_file_mounts", "setting_up",
            "initialization_commands", "run_init_sync", "setup_commands",
            "start_commands", "success", "done"}

StatusesOn(n) ==
    LET writes == SelectSeq(cluster_tag_writes[n],
                      LAMBDA w : CLOUDTIK_TAG_NODE_STATUS \in DOMAIN w.tags)
    IN [i \in 1..Len(writes) |-> writes[i].tags[CLOUDTIK_TAG_NODE_STATUS]]

\* C21: with the Updaters of several nodes interleaved in every way, each
\* provider call of an Updater names its own node, so what is written on a
\* node is what its own Updater writes when it runs alone: nothing before it
\* starts, statuses in the canonical order, one final status when it has
\* ended, and all five statuses when the tags it read ask for a full setup.
C21_UpdaterIsolation ==
    \A n \in Nodes :
        LET st == StatusesOn(n)
        IN /\ \A i \in 1..Len(cluster_tag_writes[n]) :
                  cluster_tag_writes[n][i].by = n
           /\ \A i \in 1..Len(fleet[n].read_from) : fleet[n].read_from[i] = n
           /\ fleet[n].pc = "do_update" <=> cluster_tag_writes[n] = <<>>
           /\ \A i \in 1..Len(st) : \A j \in 1..Len(st) :
                  i < j => Rank(st[i]) < Rank(st[j])
           /\ fleet[n].pc \in {"done", "returned"} <=>
                  (st # <<>> /\ Rank(st[Len(st)]) = 5)
           /\ (/\ fleet[n].pc = "done"
               /\ Get(fleet[n].node_tags, CLOUDTIK_TAG_RUNTIME_CONFIG)
                      # runtime_hash) =>
                  st = <<STATUS_WAITING_FOR_SSH,
                         STATUS_BOOTSTRAPPING_DATA_DISKS,
                         STATUS_SYNCING_FILES, STATUS_SETTING_UP,
                         STATUS_UP_TO_DATE>>

\* one Updater went through the full setup while the other one failed in its
\* SSH wait
C21_Witness ==
    /\ fleet["n1"].pc = "done"
    /\ Len(StatusesOn("n1")) = 5
    /\ fleet["n2"].pc = "returned"
    /\ StatusesOn("n2") = <<STATUS_WAITING_FOR_SSH, STATUS_UPDATE_FAILED>>

----------------------------------------------------------------------------
(* Properties of the cluster config bootstrap *)

\* the last call is a _bootstrap_config of a config that is not bootstrapped
BootstrapCall ==
    /\ call.op = "_bootstrap_config"
    /\ ~call.config.bootstrapped

\* the cache key of the config of the last call
CallKey == cache_key(get_json_object_hash(prepare_config(call.config)))

\* a cache file that holds a record of this version with a config that can
\* be decrypted
IsSoundFile(file) ==
    /\ IsJson(file.text)
    /\ "_version" \in DOMAIN json_loads(file.text)
    /\ json_loads(file.text)._version = CONFIG_CACHE_VERSION
    /\ "config" \in DOMAIN json_loads(file.text)
    /\ IsDecryptable(json_loads(file.text).config)

\* the config a sound cache file holds
ConfigOf(file) == decrypt_config(json_loads(file.text).config)

\* the last call found a sound cache file and was allowed to read it
CacheHit ==
    /\ BootstrapCall
    /\ ~call.no_config_cache
    /\ CallKey \in DOMAIN call.before.cache_files
    /\ IsSoundFile(call.before.cache_files[CallKey])

\* the last call resolved the config through the provider
Resolved ==
    /\ BootstrapCall
    /\ call.result.outcome = "returned"
    /\ call.result.provider_calls # <<>>

\* C15: a resolution with caching enabled leaves a cache file of mode 0o600
\* that holds the returned config and the provider's log state; a later
\* _bootstrap_config of the same input with no_config_cache false that finds
\* this file returns the config it holds, calls neither post_prepare nor
\* bootstrap_config, leaves the cache as it is, and reloads the stored
\* provider_log_info.
C15_CachedResolve ==
    /\ (Resolved /\ (~call.no_config_cache \/ call.init_config_cache)) =>
           /\ CallKey \in DOMAIN cache_files
           /\ IsSoundFile(cache_files[CallKey])
           /\ ConfigOf(cache_files[CallKey]) = call.result.ret
           /\ cache_files[CallKey].mode = "0o600"
           /\ json_loads(cache_files[CallKey].text).provider_log_info =
                  IF call.result.ret.provider_type = "aws"
                  THEN provider_log_state ELSE None
    /\ CacheHit =>
           LET file == call.before.cache_files[CallKey]
               info == json_loads(file.text).provider_log_info
           IN  /\ call.result.outcome = "returned"
               /\ call.result.ret = ConfigOf(file)
               /\ call.result.provider_calls = <<>>
               /\ cache_files = call.before.cache_files
               /\ info # None => provider_log_state = info

\* a call in a new process returned the cached config of an aws cluster and
\* reloaded its log state
C15_Witness ==
    /\ CacheHit
    /\ call.result.ret.provider_type = "aws"
    /\ call.before.provider_log_state = NoLogState
    /\ provider_log_state = "log-" \o call.result.ret.resolution

CacheMissOrDamaged ==
    /\ BootstrapCall
    /\ call.config.provider_type \in _NODE_PROVIDERS
    /\ ~call.no_config_cache
    /\ CallKey \in DOMAIN call.before.cache_files =>
           ~IsSoundFile(call.before.cache_files[CallKey])

\* C17: when the cache file of the config is absent, is no JSON, lacks the
\* config field or cannot be decrypted, _bootstrap_config goes on to the
\* provider: it raises nothing but what the resolution raises, and when it
\* returns it returns the config the provider resolved.
C17_DamagedCacheFallsThrough ==
    CacheMissOrDamaged =>
        /\ call.result.provider_calls # <<>>
        /\ call.result.outcome = "raised" =>
               call.result.exception \in FailurePoints

\* a cache file that is no JSON made the call raise
C17_Witness ==
    /\ CacheMissOrDamaged
    /\ call.result.outcome = "raised"
    /\ call.result.exception = "JSONDecodeError"
    /\ call.result.provider_calls = <<>>

\* an absent cache file is no error
C17_MissingFileResolved ==
    /\ Resolved
    /\ ~call.no_config_cache
    /\ CallKey \notin DOMAIN call.before.cache_files

\* the last call was allowed to read the cache and found a record of another
\* version, or of none
VersionMismatch ==
    /\ BootstrapCall
    /\ ~call.no_config_cache
    /\ CallKey \in DOMAIN call.before.cache_files
    /\ IsJson(call.before.cache_files[CallKey].text)
    /\ LET config_cache == json_loads(call.before.cache_files[CallKey].text)
       IN  \/ "_version" \notin DOMAIN config_cache
           \/ config_cache._version # CONFIG_CACHE_VERSION

\* C18: a cache file of another version makes _bootstrap_config raise nothing
\* of its own and is not returned: the config is resolved through the
\* provider, and the file is overwritten by a record of this version holding
\* the returned config, which the next call finds.
C18_VersionMismatchReResolved ==
    VersionMismatch =>
        LET old == json_loads(call.before.cache_files[CallKey].text)
        IN  /\ call.result.provider_calls # <<>>
            /\ call.result.outcome = "raised" =>
                   call.result.exception \in FailurePoints
            /\ call.result.outcome = "returned" =>
                   /\ call.result.ret # decrypt_config(old.config)
                   /\ call.result.provider_calls =
                          <<"post_prepare", "bootstrap_config">>
                   /\ IsSoundFile(cache_files[CallKey])
                   /\ ConfigOf(cache_files[CallKey]) = call.result.ret

\* a record of version 0 was replaced by one of this version
C18_Witness ==
    /\ VersionMismatch
    /\ "_version" \in
           DOMAIN json_loads(call.before.cache_files[CallKey].text)
    /\ call.result.outcome = "returned"
    /\ IsSoundFile(cache_files[CallKey])

\* the call just made ran while the second call had the cache file open
ReadBesideWriter ==
    /\ call.op = "_bootstrap_config"
    /\ call.result.cache_read
    /\ cache_writer # <<>>
    /\ cache_writer[1] = CallKey

\* C25: the config cache is protected by locking. When a _bootstrap_config
\* call reads the cache file while another call for the same config is
\* writing it, the reader does not see a partly written file and does not
\* fail because of the writer: what it read is a JSON text and it raises no
\* JSONDecodeError.
C25_CacheProtectedByLocking ==
    ReadBesideWriter =>
        /\ IsJson(call.before.cache_files[CallKey].text)
        /\ ~(/\ call.result.outcome = "raised"
              /\ call.result.exception = "JSONDecodeError")

\* a call read the cache file the second call had opened and not yet written
C25_Witness ==
    /\ ReadBesideWriter
    /\ call.before.cache_files[CallKey] = Truncated
    /\ call.result.outcome = "raised"

\* the cache files the last call created or overwrote
WrittenKeys ==
    {key \in DOMAIN cache_files :
        \/ key \notin DOMAIN call.before.cache_files
        \/ cache_files[key] # call.before.cache_files[key]}

\* C37: a cache file is created or overwritten only at the end of a
\* resolution whose validate_config and verify_config succeeded. A call that
\* raises (unknown provider, validation, provider bootstrap_config or
\* verify_config failed) leaves every cache file as it was; a call that writes
\* has resolved the config through the provider, returns it, and writes it to
\* the file of its cache key alone. So every cache file that is a record of
\* this version holds a verified config.
C37_CacheWrittenAfterVerify ==
    /\ call.op = "_bootstrap_config" =>
           /\ DOMAIN call.before.cache_files \subseteq DOMAIN cache_files
           /\ call.result.outcome = "raised" => WrittenKeys = {}
           /\ WrittenKeys # {} =>
                  /\ Resolved
                  /\ call.result.provider_calls =
                         <<"post_prepare", "bootstrap_config">>
                  /\ ~call.no_config_cache \/ call.init_config_cache
                  /\ WrittenKeys = {CallKey}
                  /\ IsSoundFile(cache_files[CallKey])
                  /\ ConfigOf(cache_files[CallKey]) = call.result.ret
    /\ \A key \in DOMAIN cache_files :
           IsSoundFile(cache_files[key]) =>
               /\ ConfigOf(cache_files[key]) \in ResolvedConfigs
               /\ key = cache_key(get_json_object_hash(prepare_config(
                      [ConfigOf(cache_files[key]) EXCEPT
                          !.stage = "raw", !.runtime = "none",
                          !.resolution = "", !.bootstrapped = FALSE])))

\* verify_config failed in a call that was to write the cache file, and no
\* file of its key exists
C37_Witness ==
    /\ BootstrapCall
    /\ call.result.outcome = "raised"
    /\ call.result.exception = "verify_config"
    /\ ~call.no_config_cache
    /\ CallKey \notin DOMAIN cache_files

\* a call wrote the cache file after a resolution that went through
C37_Written ==
    /\ Resolved
    /\ WrittenKeys = {CallKey}

\* the runtime part of a config resolved under the skip_runtime setting
RuntimeUnder(skip_runtime_bootstrap) ==
    IF skip_runtime_bootstrap THEN "none" ELSE "bootstrapped"

\* C38: a cache hit returns a config that was resolved under the
\* skip_runtime setting of the call: a config cached by a call with
\* skip_runtime true is not returned to a call with skip_runtime false, nor
\* the other way round.
C38_CacheHitSameSkipRuntime ==
    (CacheHit /\ call.result.outcome = "returned") =>
        call.result.ret.runtime = RuntimeUnder(call.skip_runtime_bootstrap)

\* a call that asked for the runtime bootstrap read a cache file written by
\* a call that skipped it
C38_Witness ==
    /\ CacheHit
    /\ ~call.skip_runtime_bootstrap
    /\ ConfigOf(call.before.cache_files[CallKey]).runtime = "none"

----------------------------------------------------------------------------
(* Properties of the ResourceDemandScheduler *)

\* the nodes of type t the last tick terminated
TerminatedOfType(t) ==
    {n \in scaling.to_terminate : scaling.nodes[n].node_type = t}

\* the target of type t: the workers of the type the last decision leaves
\* the cluster with, those it found less those it terminates plus those it
\* launches
Target(t) ==
    Cardinality(NodesOfType(scaling.nodes, t))
        - Cardinality(TerminatedOfType(t)) + scaling.to_launch[t]

\* C26: the scheduler respects the bounds. After a tick, whatever the
\* requests and the demands were, every node type t has
\* min_workers(t) <= target(t) <= max_workers(t), and the targets of all
\* types sum to at most the global max_workers.
C26_SchedulerRespectsBounds ==
    scaling.decided =>
        /\ \A t \in TypeNames :
               /\ MinWorkers(node_type_catalog, t) <= Target(t)
               /\ Target(t) <= MaxWorkers(node_type_catalog, t)
        /\ SumTypes([t \in TypeNames |-> Target(t)], 1)
               <= node_type_catalog.max_workers

\* a tick launched a node of a type that is now at its max_workers, in a
\* cluster that is now at the global max_workers, and the workers the tick
\* left are the workers of the cluster
C26_Witness ==
    /\ scaling.decided
    /\ \E t \in TypeNames :
           /\ scaling.to_launch[t] > 0
           /\ Target(t) = MaxWorkers(node_type_catalog, t)
    /\ SumTypes([t \in TypeNames |-> Target(t)], 1)
           = node_type_catalog.max_workers
    /\ \A t \in TypeNames :
           Cardinality(NodesOfType(cluster_nodes, t)) = Target(t)

\* how long node n had not been used when the last tick was made
IdleFor(n) == scaling.now - scaling.nodes[n].last_used_time

\* C27: idle eviction. A node is in to_terminate only if now minus its last
\* used time exceeds idle_timeout_minutes and the nodes of its type that
\* are not terminated are min_workers at least; so a worker idle for the
\* timeout or less is never in to_terminate.
C27_IdleEviction ==
    \A n \in scaling.to_terminate :
        /\ IdleFor(n) > node_type_catalog.idle_timeout_minutes
        /\ Cardinality(NodesOfType(scaling.nodes,
                                   scaling.nodes[n].node_type))
               - Cardinality(TerminatedOfType(scaling.nodes[n].node_type))
               >= MinWorkers(node_type_catalog, scaling.nodes[n].node_type)

\* a tick terminated a worker and kept another one that was idle, for no
\* longer than the timeout
C27_Witness ==
    /\ scaling.to_terminate # {}
    /\ \E m \in DOMAIN scaling.nodes \ scaling.to_terminate :
           /\ IdleFor(m) > 0
           /\ IdleFor(m) <= node_type_catalog.idle_timeout_minutes

\* a tick kept a worker that was idle for longer than the timeout, because
\* its type holds min_workers only
C27_KeptForMinWorkers ==
    /\ scaling.decided
    /\ \E m \in DOMAIN scaling.nodes \ scaling.to_terminate :
           /\ IdleFor(m) > node_type_catalog.idle_timeout_minutes
           /\ Target(scaling.nodes[m].node_type)
                  = MinWorkers(node_type_catalog, scaling.nodes[m].node_type)
           /\ scaling.to_launch[scaling.nodes[m].node_type] = 0

----------------------------------------------------------------------------
(* Properties of ClusterMetrics *)

\* a bundle that may be stored: not empty, not a single-key bundle of amount 0
Storable(b) ==
    /\ DOMAIN b # {}
    /\ ~(\E r \in DOMAIN b : DOMAIN b = {r} /\ b[r] = 0)

\* a delete token for resource r
DeleteToken(b, r) == DOMAIN b = {r} /\ b[r] = 0

\* the resource ids a list of bundles mentions
IdsOf(l) == {r \in Resources : \E i \in 1..Len(l) : r \in DOMAIN l[i]}

Touches(b, ids) == DOMAIN b \cap ids # {}

AcceptedSet == call.op = "set_resource_requests" /\ call.ret

\* C6: request merge. After an accepted set_resource_requests(t, Y,
\* override=false) on request list R: every storable bundle of Y is in the
\* list; a bundle touching a resource id of Y occurs exactly as often as Y
\* holds it as a storable bundle (no occurrence of R remains); a bundle
\* touching no resource id of Y occurs as often as in R.
C6_RequestMerge ==
    (AcceptedSet /\ ~call.override) =>
        LET Y == call.requests.val
            R == call.before.resource_requests
        IN  /\ \A i \in 1..Len(Y) :
                   Storable(Y[i]) => Y[i] \in Range(resource_requests)
            /\ \A b \in Bundles :
                   Touches(b, IdsOf(Y)) =>
                       Count(b, resource_requests) =
                           (IF Storable(b) THEN Count(b, Y) ELSE 0)
            /\ \A b \in Range(R) :
                   ~Touches(b, IdsOf(Y)) =>
                       Count(b, resource_requests) = Count(b, R)

\* C6 witness: a merge that stored a bundle of Y, dropped a request of R
\* touching a resource id of Y and kept a request of R touching none
C6_Witness ==
    /\ AcceptedSet /\ ~call.override
    /\ \E i \in 1..Len(call.requests.val) : Storable(call.requests.val[i])
    /\ \E b \in Range(call.before.resource_requests) :
           /\ ~Touches(b, IdsOf(call.requests.val))
           /\ b \in Range(resource_requests)

\* C6 witness of the other case: a request of R touching a resource id of Y
\* was dropped
C6_DropReached ==
    /\ AcceptedSet /\ ~call.override
    /\ \E b \in Range(call.before.resource_requests) :
           /\ Touches(b, IdsOf(call.requests.val))
           /\ b \notin Range(resource_requests)

\* C7: delete tokens. The request list never holds an empty bundle or a
\* single-key bundle of amount 0; and after an accepted
\* set_resource_requests whose list holds the token {r:0}, a bundle
\* referencing r is in the list only as often as the new list holds it.
C7_DeleteTokens ==
    /\ \A i \in 1..Len(resource_requests) : Storable(resource_requests[i])
    /\ AcceptedSet =>
           \A r \in Resources :
               (\E i \in 1..Len(call.requests.val) :
                    DeleteToken(call.requests.val[i], r)) =>
                   \A b \in Bundles :
                       r \in DOMAIN b =>
                           Count(b, resource_requests) =
                               (IF Storable(b)
                                THEN Count(b, call.requests.val) ELSE 0)

\* C7 witness: a token {r:0} was passed while a request referenced r, and no
\* request references r afterwards
C7_Witness ==
    /\ AcceptedSet
    /\ \E r \in Resources :
           /\ \E i \in 1..Len(call.requests.val) :
                  DeleteToken(call.requests.val[i], r)
           /\ \E b \in Range(call.before.resource_requests) : r \in DOMAIN b
           /\ \A b \in Range(resource_requests) : r \notin DOMAIN b

\* C8: a call whose requesting time is not after last_requesting_time
\* returns false and changes neither the requests nor last_requesting_time,
\* whatever override is.
C8_StaleRejected ==
    (call.op = "set_resource_requests"
        /\ call.t <= call.before.last_requesting_time) =>
        /\ ~call.ret
        /\ resource_requests = call.before.resource_requests
        /\ last_requesting_time = call.before.last_requesting_time

\* C8 witness: an overriding call with a list and a stale time was rejected
\* while requests were stored
C8_Witness ==
    /\ call.op = "set_resource_requests"
    /\ call.requests.some /\ call.requests.val # <<>>
    /\ call.override
    /\ call.t <= call.before.last_requesting_time
    /\ ~call.ret
    /\ resource_requests # <<>>

\* the seven per-IP maps, by name
MapsNow == MapsBefore

MapNames == DOMAIN MapsNow

\* C9: after prune_active_ips(A) each of the seven per-IP maps holds
\* exactly the IPs of A it held before, each with the value it had.
C9_PruneRestricts ==
    call.op = "prune_active_ips" =>
        \A m \in MapNames :
            /\ DOMAIN MapsNow[m] = DOMAIN call.before[m] \cap call.active_ips
            /\ \A ip \in DOMAIN MapsNow[m] :
                   MapsNow[m][ip] = call.before[m][ip]

\* C9 witness: a prune that removed one IP and kept another, both known to
\* all seven maps
C9_Witness ==
    /\ call.op = "prune_active_ips"
    /\ removed_log # {}
    /\ call.active_ips # {}
    /\ \A m \in MapNames : DOMAIN call.before[m] = IPs
    /\ \A m \in MapNames : DOMAIN MapsNow[m] = call.active_ips

\* the dynamic resources within the static ones: no resource outside them,
\* no amount below 0 or above the static amount
WithinStatic(dynamic_resources, static_resources) ==
    \A r \in DOMAIN dynamic_resources :
        /\ r \in DOMAIN static_resources
        /\ 0 <= dynamic_resources[r]
        /\ dynamic_resources[r] <= static_resources[r]

\* for every resource of the IP, 0 <= dynamic <= static
DynamicWithinStaticAt(ip) ==
    /\ ip \in DOMAIN static_resources_by_ip
    /\ ip \in DOMAIN dynamic_resources_by_ip
    /\ DOMAIN static_resources_by_ip[ip] \subseteq
           DOMAIN dynamic_resources_by_ip[ip]
    /\ WithinStatic(dynamic_resources_by_ip[ip], static_resources_by_ip[ip])

\* C10 as claimed: in every reachable state, for every IP and every
\* resource r of that IP, 0 <= dynamic[ip][r] <= static[ip][r].
C10_DynamicWithinStatic ==
    \A ip \in DOMAIN dynamic_resources_by_ip \cup DOMAIN static_resources_by_ip :
        DynamicWithinStaticAt(ip)

\* C11 as claimed: whatever the timestamps of the reports, every IP present
\* has last_used_time_by_ip[ip] <= last_resource_time_by_ip[ip].
C11_LastUsedBeforeResource ==
    \A ip \in DOMAIN last_used_time_by_ip \cup DOMAIN last_resource_time_by_ip :
        /\ ip \in DOMAIN last_used_time_by_ip
        /\ ip \in DOMAIN last_resource_time_by_ip
        /\ last_used_time_by_ip[ip] <= last_resource_time_by_ip[ip]

\* C11 amended: as long as every report of an IP came with a timestamp no
\* older than the one stored for that IP, every IP with a last used time or a
\* last resource time has both, and last_used_time_by_ip[ip] <=
\* last_resource_time_by_ip[ip].
C11_InOrderLastUsedBeforeResource ==
    timestamps_in_order => C11_LastUsedBeforeResource

\* reports in order left an IP with a last used time older than its last
\* resource time
C11_Witness ==
    /\ timestamps_in_order
    /\ call.op = "update_node_resources"
    /\ call.ip \in DOMAIN last_used_time_by_ip
    /\ last_used_time_by_ip[call.ip] < last_resource_time_by_ip[call.ip]

\* C12: after any sequence of update_heartbeat, mark_active,
\* update_node_resources and prune_active_ips, the maps of static resources,
\* dynamic resources, resource loads, last resource times and last used times
\* have the same set of IP keys.
C12_KeyAlignment ==
    /\ DOMAIN dynamic_resources_by_ip = DOMAIN static_resources_by_ip
    /\ DOMAIN resource_load_by_ip = DOMAIN static_resources_by_ip
    /\ DOMAIN last_resource_time_by_ip = DOMAIN static_resources_by_ip
    /\ DOMAIN last_used_time_by_ip = DOMAIN static_resources_by_ip

\* a pruning kept one reporting IP and removed another
C12_Witness ==
    /\ call.op = "prune_active_ips"
    /\ DOMAIN call.before.static_resources_by_ip = IPs
    /\ DOMAIN static_resources_by_ip = {"ip1"}
    /\ DOMAIN last_heartbeat_time_by_ip = {"ip1"}

\* an IP known only by its heartbeat is in none of the five maps
C12_HeartbeatOnlyReached ==
    /\ call.op = "mark_active"
    /\ DOMAIN last_heartbeat_time_by_ip = IPs
    /\ DOMAIN static_resources_by_ip = {"ip2"}

\* the instruction of the last call is not newer than the demands stored
\* before it
StaleInstruction ==
    /\ call.op = "update_autoscaling_instructions"
    /\ call.instr.some
    /\ call.instr.scaling_time <= call.before.last_demanding_time

\* C13 as claimed: update_autoscaling_instructions with scaling_time <=
\* last_demanding_time leaves the stored resource_demands unchanged.
C13_StaleDemandsUnchanged ==
    StaleInstruction => resource_demands = call.before.resource_demands

\* C13 amended: update_autoscaling_instructions with scaling_time <=
\* last_demanding_time stores none of the instruction's demands and leaves
\* last_demanding_time unchanged, and the stored resource_demands become
\* empty; the demands of an instruction are stored, with its scaling time,
\* exactly when it is newer and its demands are not empty.
C13_StaleDemandsCleared ==
    /\ StaleInstruction =>
           /\ resource_demands = <<>>
           /\ last_demanding_time = call.before.last_demanding_time
    /\ call.op = "update_autoscaling_instructions" =>
           IF /\ call.instr.some
              /\ call.instr.scaling_time > call.before.last_demanding_time
              /\ call.instr.resource_demands.some
              /\ call.instr.resource_demands.val # <<>>
           THEN /\ resource_demands = call.instr.resource_demands.val
                /\ last_demanding_time = call.instr.scaling_time
           ELSE /\ resource_demands = <<>>
                /\ last_demanding_time = call.before.last_demanding_time

\* a stale instruction with demands arrived while demands were stored
C13_Witness ==
    /\ StaleInstruction
    /\ call.before.resource_demands # <<>>
    /\ call.instr.resource_demands.some
    /\ call.instr.resource_demands.val # <<>>
    /\ resource_demands = <<>>

\* C14 as claimed: update_autoscaling_instructions returns true if and only
\* if the stored resource_requests after the call differ from those before.
C14_ReturnsTrueIffChanged ==
    call.op = "update_autoscaling_instructions" =>
        (call.ret <=> resource_requests # call.before.resource_requests)

\* the requests of the instruction of the last call are taken: there are
\* some, and the instruction is newer than the last requesting time
InstructionRequestsTaken ==
    /\ call.instr.some
    /\ call.instr.resource_requests.some
    /\ call.instr.resource_requests.val # <<>>
    /\ call.instr.scaling_time > call.before.last_requesting_time

\* C14 amended: update_autoscaling_instructions returns true if and only if
\* the instruction carries a non-empty request list and is newer than
\* last_requesting_time; then last_requesting_time becomes its scaling time
\* and the merged list is stored, which may equal the list before. When it
\* returns false, resource_requests and last_requesting_time are unchanged.
C14_ReturnsTrueIffTaken ==
    call.op = "update_autoscaling_instructions" =>
        /\ call.ret <=> InstructionRequestsTaken
        /\ call.ret => last_requesting_time = call.instr.scaling_time
        /\ ~call.ret =>
               /\ resource_requests = call.before.resource_requests
               /\ last_requesting_time = call.before.last_requesting_time

\* the call returned true and stored the list that was stored before
C14_Witness ==
    /\ call.op = "update_autoscaling_instructions"
    /\ call.ret
    /\ call.before.resource_requests # <<>>
    /\ resource_requests = call.before.resource_requests

\* C10, what the store does keep: after update_node_resources for an IP with
\* dynamic resources reported within the static ones, every resource r of the IP
\* has 0 <= dynamic[ip][r] <= static[ip][r]; prune_active_ips leaves the
\* static and dynamic resources of the IPs it keeps as they were.
C10_ReportedWithinStatic ==
    /\ (call.op = "update_node_resources"
            /\ WithinStatic(call.dynamic_resources,
                            static_resources_by_ip[call.ip])) =>
           DynamicWithinStaticAt(call.ip)
    /\ call.op = "prune_active_ips" =>
           \A ip \in DOMAIN dynamic_resources_by_ip :
               /\ ip \in DOMAIN call.before.dynamic_resources_by_ip
               /\ ip \in DOMAIN call.before.static_resources_by_ip
               /\ ip \in DOMAIN static_resources_by_ip
               /\ dynamic_resources_by_ip[ip] =
                      call.before.dynamic_resources_by_ip[ip]
               /\ static_resources_by_ip[ip] =
                      call.before.static_resources_by_ip[ip]

\* C10: update_node_resources stored more of a resource than the node has
C10_ExcessStored ==
    /\ call.op = "update_node_resources"
    /\ \E r \in DOMAIN static_resources_by_ip[call.ip] :
           dynamic_resources_by_ip[call.ip][r] >
               static_resources_by_ip[call.ip][r]

\* a report lacking a static resource of non-zero capacity was
\* stored with amount 0 for it
C10_Witness ==
    /\ call.op = "update_node_resources"
    /\ \E r \in NodeResources :
           /\ r \notin DOMAIN call.dynamic_resources
           /\ static_resources_by_ip[call.ip][r] > 0
           /\ r \in DOMAIN dynamic_resources_by_ip[call.ip]
           /\ dynamic_resources_by_ip[call.ip][r] = 0

\* a step that is one update_node_resources call
IsResourceUpdate == Idle /\ call'.op = "update_node_resources"

\* the report says that the node is in use
SaysInUse(resource_load) ==
    "in_use" \in DOMAIN resource_load /\ resource_load["in_use"]

\* C32 as claimed: every update_node_resources(ip, ..., t, ...) call with
\* resources that are not empty sets last_used_time_by_ip[ip] = t, whether or
\* not the load says in_use.
C32_EveryUpdateIsActivity ==
    [][(IsResourceUpdate /\ DOMAIN call'.static_resources # {}) =>
           last_used_time_by_ip'[call'.ip] = call'.last_resource_time]_vars

\* C32 amended: an update_node_resources(ip, ..., t, ...) call sets
\* last_used_time_by_ip[ip] = t when the IP had no last used time or the load
\* says in_use; any other call leaves the last used times as they were.
C32_ActivityWhenNewOrInUse ==
    [][IsResourceUpdate =>
           IF \/ call'.ip \notin DOMAIN last_used_time_by_ip
              \/ SaysInUse(call'.resource_load)
           THEN last_used_time_by_ip' =
                    Put(last_used_time_by_ip, call'.ip,
                        call'.last_resource_time)
           ELSE last_used_time_by_ip' = last_used_time_by_ip]_vars

\* a report with in_use false, for a known IP, at another time than the
\* last used time of the IP, which stayed
C32_Witness ==
    /\ call.op = "update_node_resources"
    /\ "in_use" \in DOMAIN call.resource_load
    /\ ~call.resource_load["in_use"]
    /\ last_used_time_by_ip[call.ip] # call.last_resource_time

\* C33: for an IP that has a last used time, update_node_resources with a
\* load that lacks a true in_use leaves last_used_time_by_ip[ip] as it was
\* and sets last_resource_time_by_ip[ip] to the new timestamp.
C33_IdleUpdateKeepsLastUsed ==
    [][(/\ IsResourceUpdate
        /\ call'.ip \in DOMAIN last_used_time_by_ip
        /\ ~SaysInUse(call'.resource_load)) =>
           /\ last_used_time_by_ip'[call'.ip] = last_used_time_by_ip[call'.ip]
           /\ last_resource_time_by_ip'[call'.ip] = call'.last_resource_time]_vars

\* after an idle report the IP has been idle for some time: its last
\* resource time is later than its last used time
C33_Witness ==
    /\ call.op = "update_node_resources"
    /\ ~SaysInUse(call.resource_load)
    /\ last_resource_time_by_ip[call.ip] = call.last_resource_time
    /\ last_used_time_by_ip[call.ip] < last_resource_time_by_ip[call.ip]

\* C34: after update_node_resources(ip, ..., static, dynamic, load) the
\* dynamic resources stored for the IP have every key of static, with the
\* amounts given and 0 for the keys that dynamic lacks, and the caller's
\* dynamic dict is as it was given; and in every reachable state summary()
\* finds an available amount for every resource of the totals.
C34_DynamicFilledFromStatic ==
    /\ call.op = "update_node_resources" =>
           /\ DOMAIN call.static_resources \subseteq
                  DOMAIN dynamic_resources_by_ip[call.ip]
           /\ \A r \in DOMAIN dynamic_resources_by_ip[call.ip] :
                  dynamic_resources_by_ip[call.ip][r] =
                      IF r \in DOMAIN call.dynamic_resources
                      THEN call.dynamic_resources[r] ELSE 0
           /\ call.caller_dynamic_resources = call.dynamic_resources
    /\ "usage" \in DOMAIN summary_usage

\* a report without the CPUs of a node that has some: 0 is stored, the
\* caller's dict is still empty, and summary() counts every CPU as used
C34_Witness ==
    /\ call.op = "update_node_resources"
    /\ call.dynamic_resources = EmptyMap
    /\ call.static_resources["CPU"] > 0
    /\ dynamic_resources_by_ip[call.ip]["CPU"] = 0
    /\ "usage" \in DOMAIN summary_usage
    /\ summary_usage.usage["CPU"][1] > 0

\* C39: across update_autoscaling_instructions and set_resource_requests
\* calls last_requesting_time and last_demanding_time never decrease, and
\* resource_requests changes only in a call that strictly increases
\* last_requesting_time.
C39_RequestTimesMonotone ==
    [][/\ last_requesting_time' >= last_requesting_time
       /\ last_demanding_time' >= last_demanding_time
       /\ resource_requests' # resource_requests =>
              last_requesting_time' > last_requesting_time]_vars

\* an instruction older than the stored requests and demands was rejected
\* after both times had advanced and requests had been stored
C39_Witness ==
    /\ call.op = "update_autoscaling_instructions"
    /\ call.instr.some
    /\ call.instr.resource_requests.some
    /\ call.instr.resource_requests.val # <<>>
    /\ call.instr.resource_demands.some
    /\ call.instr.resource_demands.val # <<>>
    /\ call.instr.scaling_time < call.before.last_requesting_time
    /\ call.instr.scaling_time < call.before.last_demanding_time
    /\ call.before.resource_requests # <<>>
    /\ last_requesting_time = call.before.last_requesting_time
    /\ last_demanding_time = call.before.last_demanding_time

\* a set_resource_requests call replaced the stored requests and advanced
\* last_requesting_time
C39_RequestsReplaced ==
    /\ call.op = "set_resource_requests"
    /\ resource_requests # call.before.resource_requests
    /\ last_requesting_time > call.before.last_requesting_time
    /\ call.before.last_requesting_time > 0

----------------------------------------------------------------------------
(* Properties of the HAProxy slot reconciliation *)

\* the names and the addresses of the enabled slots
EnabledNames(slots) == {n \in DOMAIN slots : slots[n].active}
EnabledAddresses(slots) == {slots[n].address : n \in EnabledNames(slots)}

\* the addresses the last call was given
Wanted ==
    {get_backend_server_address(backend_update.backend_servers[i]) :
        i \in 1..Len(backend_update.backend_servers)}

\* the last call was given pairwise distinct addresses
DistinctServers ==
    /\ backend_update.op = "_update_backend"
    /\ \A i, j \in 1..Len(backend_update.backend_servers) :
           get_backend_server_address(backend_update.backend_servers[i]) =
           get_backend_server_address(backend_update.backend_servers[j])
               => i = j

\* no two enabled slots have the same address
DistinctEnabled(slots) ==
    \A n, m \in EnabledNames(slots) :
        slots[n].address = slots[m].address => n = m

\* the slots are named server1..servern and no two enabled ones have the
\* same address: what every call with pairwise distinct addresses leaves of
\* the slots a configuration creates
SoundSlots(slots) ==
    /\ DistinctEnabled(slots)
    /\ DOMAIN slots = {get_default_server_name(server_id) :
                          server_id \in 1..Cardinality(DOMAIN slots)}

\* the admin API was called for the slot
Touched(server_name) ==
    \E c \in backend_update.calls : c[2] = server_name

\* what the last call is to have done to the slots it found
Reconciled ==
    LET before == backend_update.before
        missing == Wanted \ EnabledAddresses(before)
        deleted == DOMAIN before \ DOMAIN backend_slots
        was_free(n) == n \in DOMAIN before /\ ~before[n].active
        was_unwanted(n) ==
            /\ n \in DOMAIN before
            /\ before[n].active
            /\ before[n].address \notin Wanted
    IN  /\ EnabledAddresses(backend_slots) = Wanted
        /\ \A n \in EnabledNames(before) :
               before[n].address \in Wanted =>
                   /\ n \in DOMAIN backend_slots
                   /\ backend_slots[n] = before[n]
                   /\ ~Touched(n)
        /\ \A n \in EnabledNames(before) :
               before[n].address \notin Wanted =>
                   <<"disable", n>> \in backend_update.calls
        /\ \A address \in missing :
               \E n \in EnabledNames(backend_slots) :
                   /\ backend_slots[n].address = address
                   /\ \A m \in EnabledNames(backend_slots) :
                          backend_slots[m].address = address => m = n
                   /\ \/ was_free(n)
                      \/ /\ was_unwanted(n)
                         /\ \A k \in DOMAIN before :
                                was_free(k) => backend_slots[k].active
                      \/ /\ n \notin DOMAIN before
                         /\ ServerId(n) > Cardinality(DOMAIN before)
                         /\ <<"add", n>> \in backend_update.calls
                         /\ \A k \in DOMAIN before : backend_slots[k].active
        /\ \A n \in deleted :
               /\ ~before[n].active
               /\ \A k \in DOMAIN before :
                      ServerId(k) > ServerId(n) => k \in deleted

\* C40: after _update_backend(backend, servers) with pairwise distinct server
\* addresses the enabled addresses of the backend are the given ones: the
\* slots that served a wanted address are untouched, every enabled slot with
\* an unwanted address was disabled, every missing address is enabled in
\* exactly one slot (a free slot, else a slot just disabled, else a new slot
\* numbered after the slots there were), and only free slots with the highest
\* numbers are deleted.
C40_SlotsReconciled == DistinctServers => Reconciled

\* a call with distinct addresses found two enabled slots with one address
C40_Witness ==
    /\ DistinctServers
    /\ ~DistinctEnabled(backend_update.before)
    /\ Wanted # {}

\* the same, for a call that found sound slots; it leaves them sound
C40_ReconciledFromSoundSlots ==
    (DistinctServers /\ SoundSlots(backend_update.before)) =>
        /\ Reconciled
        /\ SoundSlots(backend_slots)

\* a call that disabled a slot, used it again and added a slot
C40_AllThreeKinds ==
    /\ DistinctServers
    /\ SoundSlots(backend_update.before)
    /\ \E n, m \in DOMAIN backend_slots :
           /\ <<"disable", n>> \in backend_update.calls
           /\ <<"enable", n>> \in backend_update.calls
           /\ <<"add", m>> \in backend_update.calls

\* a call that deleted a free slot
C40_Deleted ==
    /\ DistinctServers
    /\ SoundSlots(backend_update.before)
    /\ DOMAIN backend_update.before \ DOMAIN backend_slots # {}

====
